---- MODULE Spec2Model ----
(***************************************************************************)
(* Interactive story generator: the model session manager, the text        *)
(* sanitizer, the choice extractor and the narrative state machine of the  *)
(* two storyGeneration implementations kept in the repository, together    *)
(* with the zustand story store they write to.                             *)
(*                                                                         *)
(* A JavaScript string is modelled as the sequence of its characters, each *)
(* character a one-character TLA+ string.  Numbers with a fraction (light  *)
(* intensity, fog density) are modelled in hundredths.  An async function  *)
(* is modelled step by step: one action is the code that runs between two  *)
(* awaits of one caller.                                                   *)
(***************************************************************************)
EXTENDS Integers, Sequences, FiniteSets, TLC

(***************************************************************************)
(* String primitives of the JavaScript runtime.                            *)
(***************************************************************************)
\* the least and the greatest i in a..b with P(i); b + 1 and a - 1 when none
FirstIn(a, b, P(_)) ==
  IF \E i \in a..b : P(i) THEN CHOOSE i \in a..b : P(i) /\ \A j \in a..(i - 1) : ~P(j) ELSE b + 1

LastIn(a, b, P(_)) ==
  IF \E i \in a..b : P(i) THEN CHOOSE i \in a..b : P(i) /\ \A j \in (i + 1)..b : ~P(j) ELSE a - 1

\* the concatenation of the sequences xs[lo], ..., xs[hi]
RECURSIVE FlattenRange(_, _, _)
FlattenRange(xs, lo, hi) ==
  IF lo > hi THEN <<>>
  ELSE IF lo = hi THEN xs[lo]
  ELSE LET mid == (lo + hi) \div 2 IN FlattenRange(xs, lo, mid) \o FlattenRange(xs, mid + 1, hi)

\* a string rebuilt from what each of its n positions contributes
ConcatMap(n, G(_)) == FlattenRange([i \in 1..n |-> G(i)], 1, n)

IsWS(c) == c \in {" ", "\n", "\t"}

IsPunct(c) == c \in {".", "!", "?"}

UpperLetters == <<"A","B","C","D","E","F","G","H","I","J","K","L","M","N","O","P","Q","R","S","T","U","V","W","X","Y","Z">>

LowerLetters == <<"a","b","c","d","e","f","g","h","i","j","k","l","m","n","o","p","q","r","s","t","u","v","w","x","y","z">>

Digits == {"0","1","2","3","4","5","6","7","8","9"}

IsLetter(c) == \E i \in 1..26 : c = UpperLetters[i] \/ c = LowerLetters[i]

\* \w of a regular expression
IsWordChar(c) == IsLetter(c) \/ c \in Digits \/ c = "_"

LowerChar(c) == IF \E i \in 1..26 : c = UpperLetters[i] THEN LowerLetters[CHOOSE i \in 1..26 : c = UpperLetters[i]] ELSE c

\* String.prototype.toLowerCase
ToLower(s) == [i \in 1..Len(s) |-> LowerChar(s[i])]

\* String.prototype.trim
Trim(s) ==
  LET first == FirstIn(1, Len(s), LAMBDA i : ~IsWS(s[i]))
      last == LastIn(1, Len(s), LAMBDA i : ~IsWS(s[i]))
  IN SubSeq(s, first, last)

\* String.prototype.startsWith
StartsWith(s, p) == Len(p) <= Len(s) /\ SubSeq(s, 1, Len(p)) = p

\* String.prototype.endsWith
EndsWith(s, p) == Len(p) <= Len(s) /\ SubSeq(s, Len(s) - Len(p) + 1, Len(s)) = p

\* String.prototype.indexOf, 0-based, -1 when absent; from is a 0-based start
IndexOfFrom(s, p, from) ==
  LET n == Len(p)
      Found(i) == IF i > Len(s) - n THEN -1 ELSE i
  IN Found(FirstIn(from, Len(s) - n, LAMBDA k : n = 0 \/ (s[k + 1] = p[1] /\ SubSeq(s, k + 1, k + n) = p)))

IndexOf(s, p) == IndexOfFrom(s, p, 0)

\* String.prototype.includes
Includes(s, p) == IndexOf(s, p) # -1

\* String.prototype.lastIndexOf of one character, 0-based, -1 when absent
LastIndexOf(s, c) ==
  LastIn(1, Len(s), LAMBDA i : s[i] = c) - 1

\* String.prototype.substring(a, b) with 0 <= a <= b
Substring(s, a, b) == SubSeq(s, a + 1, IF b > Len(s) THEN Len(s) ELSE b)

\* String.prototype.slice(-n) with n > 0
SliceLast(s, n) == IF Len(s) <= n THEN s ELSE SubSeq(s, Len(s) - n + 1, Len(s))

\* the first element of String.prototype.split(c)
SplitFirst(s, c) ==
  LET Before(i) == IF i = -1 THEN s ELSE Substring(s, 0, i)
  IN Before(IndexOf(s, <<c>>))

\* String.prototype.split(c).slice(-2).join(c)
SplitLastTwoJoined(s, c) ==
  LET last == LastIn(1, Len(s), LAMBDA i : s[i] = c)
      After(prev) == IF prev < 1 THEN s ELSE SubSeq(s, prev + 1, Len(s))
  IN After(LastIn(1, last - 1, LAMBDA i : s[i] = c))

\* s.replace(/<phrase>.*/i, '') for each phrase in turn: the first
\* case-insensitive occurrence of the phrase is removed together with the
\* rest of its line (`.*` without the s flag stops at a line terminator)
RECURSIVE RemovePhraseLines(_, _)
RemovePhraseLines(s, phrases) ==
  LET LineEnd(i) == FirstIn(i, Len(s), LAMBDA j : s[j] \in {"\n", "\r"})
      Without(i) == IF i = -1 THEN s
                    ELSE SubSeq(s, 1, i) \o SubSeq(s, LineEnd(i + 1 + Len(Head(phrases))), Len(s))
  IN IF phrases = <<>> \/ s = <<>> THEN s
     ELSE RemovePhraseLines(Without(IndexOf(ToLower(s), Head(phrases))), Tail(phrases))

\* s.match(/[^.!?]+[.!?]+/g) || []: the sentences of s, each a maximal run of
\* non-terminators followed by a maximal run of terminators.
RECURSIVE SentencesFrom(_, _)
SentencesFrom(s, i) ==
  LET Cut(p, e) == IF p > Len(s) THEN <<>>
                   ELSE IF p = i THEN SentencesFrom(s, e + 1)
                   ELSE <<SubSeq(s, i, e)>> \o SentencesFrom(s, e + 1)
      To(p) == Cut(p, FirstIn(p, Len(s), LAMBDA j : ~IsPunct(s[j])) - 1)
  IN To(FirstIn(i, Len(s), LAMBDA j : IsPunct(s[j])))

\* [...new Set(xs)]: first occurrences, in order
RECURSIVE Unique(_)
Unique(xs) ==
  IF xs = <<>> THEN <<>>
  ELSE LET With(init, x) == IF \E k \in 1..Len(init) : init[k] = x THEN init ELSE Append(init, x)
       IN With(Unique(SubSeq(xs, 1, Len(xs) - 1)), xs[Len(xs)])

\* Array.prototype.join(sep)
RECURSIVE Join(_, _)
Join(xs, sep) ==
  IF xs = <<>> THEN <<>>
  ELSE IF Len(xs) = 1 THEN xs[1]
  ELSE xs[1] \o sep \o Join(Tail(xs), sep)

\* s.replace(/\s+/g, ' '): a character is kept unless it is white space that
\* follows white space; every kept white space becomes a blank.
CollapseWS(s) ==
  LET G(i) == IF ~IsWS(s[i]) THEN <<s[i]>>
              ELSE IF i = 1 \/ ~IsWS(s[i - 1]) THEN <<" ">>
              ELSE <<>>
  IN ConcatMap(Len(s), G)

\* s.replace(/\.+/g, '.')
CollapseDots(s) ==
  LET G(i) == IF s[i] = "." /\ i > 1 /\ s[i - 1] = "." THEN <<>> ELSE <<s[i]>>
  IN ConcatMap(Len(s), G)

\* s.replace(/([.!?])\s*([.!?])+/g, '$1'): a terminator, optional white space
\* and a run of further terminators are replaced by the first terminator.
RECURSIVE CollapsePunctFrom(_, _)
CollapsePunctFrom(s, i) ==
  LET NextBlack(j) == FirstIn(j + 1, Len(s), LAMBDA k : ~IsWS(s[k]))
      Doubled(k, b) == IsPunct(s[k]) /\ b <= Len(s) /\ IsPunct(s[b])
      Keep(j) == IF j > Len(s) THEN SubSeq(s, i, Len(s))
                 ELSE SubSeq(s, i, j)
                      \o CollapsePunctFrom(s, FirstIn(NextBlack(j), Len(s), LAMBDA k : ~IsPunct(s[k])))
  IN Keep(FirstIn(i, Len(s), LAMBDA k : Doubled(k, NextBlack(k))))

\* s.replace(/(\.\s+|\n|^)<w>\b/g, '$1<r>') for a two-letter word w: the word
\* is replaced where it starts the text, follows a newline, or follows a
\* period and white space, and is not followed by a word character.
FixWord(s, w, r) ==
  LET At(i) ==
        /\ i >= 1 /\ i < Len(s)
        /\ s[i] = w[1] /\ s[i + 1] = w[2]
        /\ (i + 2 > Len(s) \/ ~IsWordChar(s[i + 2]))
        /\ \/ i = 1
           \/ s[i - 1] = "\n"
           \/ /\ IsWS(s[i - 1])
              /\ LET Dot(d) == d >= 1 /\ s[d] = "." IN Dot(LastIn(1, i - 1, LAMBDA k : ~IsWS(s[k])))
      G(i) == IF At(i) THEN r ELSE IF At(i - 1) THEN <<>> ELSE <<s[i]>>
  IN ConcatMap(Len(s), G)

\* s.replace(/\s+([,.!?])/g, '$1'): white space in front of punctuation goes
NoSpaceBeforePunct(s) ==
  LET Drop(i) ==
        /\ IsWS(s[i])
        /\ LET Mark(q) == q <= Len(s) /\ s[q] \in {",", ".", "!", "?"}
           IN Mark(FirstIn(i + 1, Len(s), LAMBDA k : ~IsWS(s[k])))
      G(i) == IF Drop(i) THEN <<>> ELSE <<s[i]>>
  IN ConcatMap(Len(s), G)

\* s.replace(/([.!?])(?=[a-zA-Z])/g, '$1 ')
SpaceAfterPunct(s) ==
  LET G(i) == IF IsPunct(s[i]) /\ i < Len(s) /\ IsLetter(s[i + 1]) THEN <<s[i], " ">> ELSE <<s[i]>>
  IN ConcatMap(Len(s), G)

(***************************************************************************)
(* Text sanitizer.                                                         *)
(***************************************************************************)
MaxTextLength == 300

FallbackSentence == <<"T","h","e"," ","a","d","v","e","n","t","u","r","e"," ","c","o","n","t","i","n","u","e","s",".",".",".">>

\* irrelevantPatterns, lower-cased (the patterns carry the i flag)
IrrelevantPatterns == <<
  <<"t","h","e"," ","p","r","o","t","a","g","o","n","i","s","t"," ","j","u","s","t"," ","c","h","o","s","e"," ","t","o",":">>,
  <<"t","h","i","s"," ","l","e","a","d","s"," ","t","o",":">>,
  <<"s","e","t","t","i","n","g",":">>,
  <<"d","e","s","c","r","i","b","e"," ","o","n","l","y"," ","w","h","a","t"," ","h","a","p","p","e","n","s">>,
  <<"c","o","n","t","i","n","u","e"," ","t","h","e"," ","s","t","o","r","y">>,
  <<"b","e"," ","v","i","v","i","d"," ","b","u","t"," ","c","o","n","c","i","s","e">>,
  <<"w","r","i","t","e"," ","a"," ","b","r","i","e","f"," ","c","o","n","t","i","n","u","a","t","i","o","n">>,
  <<"t","h","e"," ","s","t","o","r","y"," ","w","a","s"," ","f","i","r","s","t"," ","p","u","b","l","i","s","h","e","d">>,
  <<"t","h","e"," ","b","o","o","k"," ","w","a","s"," ","f","i","r","s","t"," ","p","u","b","l","i","s","h","e","d">> >>

\* "Limit length": a text longer than the cap is cut after the last sentence
\* terminator found in its first MaxTextLength characters, if there is one
\* past position 0.
LimitLength(s) ==
  IF Len(s) > MaxTextLength
  THEN LET MaxOf(S) == CHOOSE x \in S : \A y \in S : x >= y
           CutAfter(lastSentenceEnd) == IF lastSentenceEnd > 0 THEN Substring(s, 0, lastSentenceEnd + 1) ELSE s
           LastEnd(truncated) == MaxOf({LastIndexOf(truncated, "."), LastIndexOf(truncated, "!"), LastIndexOf(truncated, "?")})
       IN CutAfter(LastEnd(Substring(s, 0, MaxTextLength)))
  ELSE s

\* "Remove the prompt": the trimmed text loses the prompt it starts with
StripPrompt(s, prompt) ==
  LET Strip(t) == IF StartsWith(t, prompt) THEN Trim(SubSeq(t, Len(prompt) + 1, Len(t))) ELSE t
  IN Strip(Trim(s))

\* the "Clean up whitespace and punctuation" step both sanitizers share
Tidy(s) == CollapsePunctFrom(CollapseDots(CollapseWS(Trim(s))), 1)

\* cleanGeneratedText of the first implementation: the prompt is stripped,
\* the text cut at a JSON array, the irrelevant phrases removed, repeated
\* sentences dropped, the length limited and the text tidied
cleanGeneratedText(generatedText, prompt) ==
  LET CutAt(s, jsonStartIndex) == IF jsonStartIndex # -1 THEN Trim(Substring(s, 0, jsonStartIndex)) ELSE s
      CutAtJson(s) == CutAt(s, IndexOf(s, <<"[","{">>))
      Joined(s, sentences) == IF Len(sentences) > 1 THEN Join(Unique(sentences), <<" ">>) ELSE s
      Deduplicate(s) == Joined(s, SentencesFrom(s, 1))
      OrFallback(cleanedText) == IF cleanedText = <<>> THEN FallbackSentence ELSE cleanedText
  IN OrFallback(Tidy(LimitLength(Deduplicate(
       RemovePhraseLines(CutAtJson(StripPrompt(generatedText, prompt)), IrrelevantPatterns)))))

MinDecentLength == 20

\* cleanText of the second implementation: the prompt is stripped, the length
\* limited, the text tidied, the common issues fixed (stray angle brackets,
\* the clipped words "ou" and "he", the spacing around punctuation), a final
\* period added when the text does not end with punctuation
cleanText(text, prompt) ==
  LET DropAngle(s) == SelectSeq(s, LAMBDA c : c \notin {"<", ">"})
      FixCommonIssues(s) ==
        SpaceAfterPunct(NoSpaceBeforePunct(FixWord(FixWord(DropAngle(s), <<"o","u">>, <<"Y","o","u">>), <<"h","e">>, <<"T","h","e">>)))
      Terminated(s) == IF s # <<>> /\ IsPunct(s[Len(s)]) THEN s ELSE Append(s, ".")
      OrFallback(cleanedText) ==
        IF Len(cleanedText) > MinDecentLength THEN cleanedText
        ELSE IF cleanedText # <<>> THEN cleanedText
        ELSE FallbackSentence
  IN OrFallback(Terminated(FixCommonIssues(Tidy(LimitLength(StripPrompt(text, prompt))))))

(***************************************************************************)
(* Choice extractor of the first implementation (parseChoicesFromText).    *)
(* Math.random() is an input: a draw is a record of the four values one    *)
(* choice takes from it.                                                   *)
(***************************************************************************)
SkipWS(s, i) == FirstIn(i, Len(s), LAMBDA k : ~IsWS(s[k]))

\* /\[\s*\{.*?\}\s*\]/gs .exec: the leftmost "[" that white space and "{"
\* follow, up to the first "}" after it that white space and "]" follow;
\* <<first, last>> (1-based), <<0, 0>> when there is no match
JsonArrayMatch(s) ==
  LET Closes(k) == s[k] = "}" /\ SkipWS(s, k + 1) <= Len(s) /\ s[SkipWS(s, k + 1)] = "]"
      Opens(i) == /\ s[i] = "["
                  /\ SkipWS(s, i + 1) <= Len(s)
                  /\ s[SkipWS(s, i + 1)] = "{"
                  /\ FirstIn(SkipWS(s, i + 1) + 1, Len(s), Closes) <= Len(s)
      i == FirstIn(1, Len(s), Opens)
  IN IF i > Len(s) THEN <<0, 0>>
     ELSE <<i, SkipWS(s, FirstIn(SkipWS(s, i + 1) + 1, Len(s), Closes) + 1)>>

\* .replace(/'/g, '"')
QuoteSingles(s) == [i \in 1..Len(s) |-> IF s[i] = "'" THEN "\"" ELSE s[i]]

\* .replace(/(\w+)\s*:/g, '"$1":'): a word that white space and a colon
\* follow is put in double quotes and the white space dropped
QuoteKeys(s) ==
  LET WordEnd(i) == FirstIn(i, Len(s), LAMBDA k : ~IsWordChar(s[k])) - 1
      IsKeyStart(i) == /\ IsWordChar(s[i])
                       /\ (i = 1 \/ ~IsWordChar(s[i - 1]))
                       /\ SkipWS(s, WordEnd(i) + 1) <= Len(s)
                       /\ s[SkipWS(s, WordEnd(i) + 1)] = ":"
      KeyStartOf(i) == LastIn(1, i, LAMBDA k : IsWordChar(s[k]) /\ (k = 1 \/ ~IsWordChar(s[k - 1])))
      \* the white space between a key and its colon
      InKeyGap(i) == /\ IsWS(s[i])
                     /\ LET b == LastIn(1, i, LAMBDA k : ~IsWS(s[k]))
                        IN b >= 1 /\ IsWordChar(s[b]) /\ IsKeyStart(KeyStartOf(b))
      G(i) == IF IsWordChar(s[i]) /\ IsKeyStart(KeyStartOf(i))
              THEN (IF i = KeyStartOf(i) THEN <<"\"">> ELSE <<>>) \o <<s[i]>>
                   \o (IF i = WordEnd(KeyStartOf(i)) THEN <<"\"">> ELSE <<>>)
              ELSE IF InKeyGap(i) THEN <<>>
              ELSE <<s[i]>>
  IN ConcatMap(Len(s), G)

\* .replace(/:\s*"?([^",\}\]]+)"?([,\}\]])/g, ':"$1"$2'): the value after a
\* colon, up to the next comma or closing bracket, is put in double quotes.
\* A match is <<first of $1, last of $1, closer>>, NoMatch when there is none.
RECURSIVE QuoteValuesFrom(_, _)
QuoteValuesFrom(s, i) ==
  LET NoMatch == <<0, 0, 0>>
      IsCloser(c) == c \in {",", "}", "]"}
      \* $1 taken from b to e, then the optional quote and the closer
      ValueRun(b, e) ==
        IF b > Len(s) \/ e < b THEN NoMatch
        ELSE IF e + 2 <= Len(s) /\ s[e + 1] = "\"" /\ IsCloser(s[e + 2]) THEN <<b, e, e + 2>>
        ELSE IF e + 1 <= Len(s) /\ IsCloser(s[e + 1]) THEN <<b, e, e + 1>>
        ELSE NoMatch
      \* the longest $1 that starts at b
      ValueFrom(b) == ValueRun(b, FirstIn(b, Len(s), LAMBDA k : s[k] \in {"\"", ",", "}", "]"}) - 1)
      \* the opening quote at w is taken when a match follows it, else left to $1
      ValueAfterWS(w) ==
        IF w <= Len(s) /\ s[w] = "\"" /\ ValueFrom(w + 1) # NoMatch THEN ValueFrom(w + 1) ELSE ValueFrom(w)
      Back(c, back) == IF back < c + 1 THEN NoMatch ELSE ValueAfterWS(back)
      \* the match at the colon at c: all the white space skipped, or less of it
      ValueMatchAt(c) == Back(c, LastIn(c + 1, SkipWS(s, c + 1), LAMBDA v : ValueAfterWS(v) # NoMatch))
      Quoted(c, m) == SubSeq(s, i, c) \o <<"\"">> \o SubSeq(s, m[1], m[2]) \o <<"\"", s[m[3]]>>
                      \o QuoteValuesFrom(s, m[3] + 1)
      At(c) == IF c > Len(s) THEN SubSeq(s, i, Len(s)) ELSE Quoted(c, ValueMatchAt(c))
  IN At(FirstIn(i, Len(s), LAMBDA k : s[k] = ":" /\ ValueMatchAt(k) # NoMatch))

NoParse == [ok |-> FALSE]

\* JSON.parse of a string literal that starts at i: [ok, value, next]
ParseString(s, i) ==
  LET Closed(close) ==
        IF i <= Len(s) /\ s[i] = "\"" /\ close <= Len(s) /\ \A k \in (i + 1)..(close - 1) : s[k] \notin {"\\", "\n"}
        THEN [ok |-> TRUE, value |-> SubSeq(s, i + 1, close - 1), next |-> close + 1]
        ELSE NoParse
  IN Closed(FirstIn(i + 1, Len(s), LAMBDA k : s[k] = "\""))

\* the members of an object from position i on, added to the members read:
\* [ok, members, next], next being the position after the closing brace
RECURSIVE ParseMembers(_, _, _)
ParseMembers(s, i, members) ==
  LET Closing(after, added) ==
        IF after > Len(s) THEN NoParse
        ELSE IF s[after] = "}" THEN [ok |-> TRUE, members |-> added, next |-> after + 1]
        ELSE IF s[after] = "," THEN ParseMembers(s, after + 1, added)
        ELSE NoParse
      Value(key, val) ==
        IF ~val.ok THEN NoParse
        ELSE Closing(SkipWS(s, val.next),
                     [k \in DOMAIN members \cup {key.value} |-> IF k = key.value THEN val.value ELSE members[k]])
      Colon(key, colon) ==
        IF colon <= Len(s) /\ s[colon] = ":" THEN Value(key, ParseString(s, SkipWS(s, colon + 1))) ELSE NoParse
      Key(key) == IF key.ok THEN Colon(key, SkipWS(s, key.next)) ELSE NoParse
  IN Key(ParseString(s, SkipWS(s, i)))

\* JSON.parse of an object whose members are strings
ParseObject(s, i) ==
  LET Open(first) ==
        IF first <= Len(s) /\ s[first] = "}" THEN [ok |-> TRUE, members |-> << >>, next |-> first + 1]
        ELSE ParseMembers(s, i + 1, << >>)
  IN IF i > Len(s) \/ s[i] # "{" THEN NoParse ELSE Open(SkipWS(s, i + 1))

RECURSIVE ParseElements(_, _, _)
ParseElements(s, i, elems) ==
  LET Closing(obj, after) ==
        IF after > Len(s) THEN NoParse
        ELSE IF s[after] = "]" THEN [ok |-> TRUE, value |-> Append(elems, obj.members), next |-> after + 1]
        ELSE IF s[after] = "," THEN ParseElements(s, after + 1, Append(elems, obj.members))
        ELSE NoParse
      Element(obj) == IF obj.ok THEN Closing(obj, SkipWS(s, obj.next)) ELSE NoParse
  IN Element(ParseObject(s, SkipWS(s, i)))

\* JSON.parse of an array of objects whose members are strings (the arrays
\* this model feeds it): [ok, value]; ok is FALSE where JSON.parse throws
JsonParse(s) ==
  LET Whole(parsed) == IF parsed.ok /\ SkipWS(s, parsed.next) > Len(s) THEN parsed ELSE NoParse
      Array(open) == IF open <= Len(s) /\ s[open] = "[" THEN Whole(ParseElements(s, open + 1, <<>>)) ELSE NoParse
  IN Array(SkipWS(s, 1))

Member(obj, key, default) == IF key \in DOMAIN obj /\ obj[key] # <<>> THEN obj[key] ELSE default

MkChoice(text, consequence, lightIntensity, fogDensity, transitionType, intensity, duration) ==
  [text |-> text, consequence |-> consequence,
   environmentImpact |->
     [lightingChange |-> [intensity |-> lightIntensity],
      atmosphereChange |-> [fogDensity |-> fogDensity],
      animationEffect |-> [transitionType |-> transitionType, intensity |-> intensity, duration |-> duration]]]

\* what one choice takes from Math.random(): fogDensity = r * 0.1, the
\* transition type, intensity = 1 + r * 0.5, duration = 2 + r
LowDraw == [fogDensity |-> 0, transitionType |-> "fade", intensity |-> 100, duration |-> 200]

HighDraw == [fogDensity |-> 5, transitionType |-> "zoom", intensity |-> 125, duration |-> 250]

\* Approach 1: the JSON array, one choice for each of its objects; draws[i]
\* is what Math.random() gave choice i
ParseJsonArrayChoices(jsonString, draws) ==
  LET JsonChoices(parsed) ==
        IF parsed.ok /\ Len(parsed.value) >= 2
        THEN [ok |-> TRUE,
              choices |-> [index \in 1..Len(parsed.value) |->
                 MkChoice(Member(parsed.value[index], <<"t","e","x","t">>, <<"C","o","n","t","i","n","u","e">>),
                          Member(parsed.value[index], <<"c","o","n","s","e","q","u","e","n","c","e">>, <<"Y","o","u"," ","c","o","n","t","i","n","u","e"," ","y","o","u","r"," ","j","o","u","r","n","e","y">>),
                          IF index = 1 THEN 80 ELSE 120,
                          draws[index].fogDensity, draws[index].transitionType,
                          draws[index].intensity, draws[index].duration)]]
        ELSE NoParse
      Matched(match) ==
        IF match = <<0, 0>> THEN NoParse
        ELSE JsonChoices(JsonParse(QuoteValuesFrom(QuoteKeys(QuoteSingles(SubSeq(jsonString, match[1], match[2]))), 1)))
  IN Matched(JsonArrayMatch(jsonString))

\* /"?<key>"?\s*:\s*"([^"]+)"/gi: every value of the key, trimmed, in order
RECURSIVE KeyValuesFrom(_, _, _)
KeyValuesFrom(s, key, i) ==
  LET Colon(colon) == IF colon <= Len(s) /\ s[colon] = ":" THEN SkipWS(s, colon + 1) ELSE 0
      \* the position of the quote that opens the value of the key found at
      \* k, 0 when no colon follows the key
      ValueQuote(k) ==
        Colon(SkipWS(s, IF k + Len(key) <= Len(s) /\ s[k + Len(key)] = "\"" THEN k + Len(key) + 1 ELSE k + Len(key)))
      \* a quoted value that is not empty starts at v
      IsQuotedValue(v) ==
        /\ v >= 1 /\ v <= Len(s) /\ s[v] = "\""
        /\ FirstIn(v + 1, Len(s), LAMBDA e : s[e] = "\"") \in (v + 2)..Len(s)
      Value(v, e) == <<Trim(SubSeq(s, v + 1, e - 1))>> \o KeyValuesFrom(s, key, e + 1)
      Quote(v) == Value(v, FirstIn(v + 1, Len(s), LAMBDA x : s[x] = "\""))
      At(k) == IF k > Len(s) - Len(key) + 1 THEN <<>> ELSE Quote(ValueQuote(k))
  IN At(FirstIn(i, Len(s) - Len(key) + 1,
                LAMBDA k : ToLower(SubSeq(s, k, k + Len(key) - 1)) = key /\ IsQuotedValue(ValueQuote(k))))

Impact1(text, consequence) == MkChoice(text, consequence, 80, 10, "fade", 120, 200)

Impact2(text, consequence) == MkChoice(text, consequence, 120, 1, "zoom", 130, 250)

\* Approach 2: text/consequence pairs
ParseKeyValueChoices(jsonString) ==
  LET PairChoices(texts, consequences) ==
        IF Len(texts) >= 2 /\ Len(consequences) >= 2
        THEN [ok |-> TRUE, choices |-> <<Impact1(texts[1], consequences[1]), Impact2(texts[2], consequences[2])>>]
        ELSE NoParse
  IN PairChoices(KeyValuesFrom(jsonString, <<"t","e","x","t">>, 1), KeyValuesFrom(jsonString, <<"c","o","n","s","e","q","u","e","n","c","e">>, 1))

\* s.match(/<marker>\s*([^\n\.]+)/g), each match with its marker and the
\* white space after it removed and trimmed; the marker is /\d+\./ for a
\* numbered item, /[\*\-]/ for a bulleted one
RECURSIVE ListItemsFrom(_, _, _)
ListItemsFrom(s, i, kind) ==
  LET Dot(k, d) == IF s[k] \in Digits /\ d <= Len(s) /\ s[d] = "." THEN d ELSE 0
      \* the end of the list marker that starts at k, 0 when none starts there
      MarkerEnd(k) ==
        IF kind = "numbered" THEN Dot(k, FirstIn(k, Len(s), LAMBDA x : s[x] \notin Digits))
        ELSE IF s[k] \in {"*", "-"} THEN k ELSE 0
      \* a character of [^\n\.]
      IsItemChar(k) == k <= Len(s) /\ s[k] \notin {"\n", "."}
      After(m, w) == IF IsItemChar(w) THEN w ELSE LastIn(m + 1, w - 1, IsItemChar)
      \* the item text after the marker that ends at m starts after the white
      \* space, or, when no text follows the white space, at the last white
      \* space the text can take instead; before m + 1 when there is no item text
      ItemStart(m) == After(m, SkipWS(s, m + 1))
      IsItem(m, k) == m >= k /\ ItemStart(m) > m
      Item(m, e) == <<Trim(SubSeq(s, SkipWS(s, m + 1), e))>> \o ListItemsFrom(s, e + 1, kind)
      Marked(m) == Item(m, FirstIn(ItemStart(m), Len(s), LAMBDA x : ~IsItemChar(x)) - 1)
      At(k) == IF k > Len(s) THEN <<>> ELSE Marked(MarkerEnd(k))
  IN At(FirstIn(i, Len(s), LAMBDA k : IsItem(MarkerEnd(k), k)))

\* Approach 3: a numbered list, else a bulleted list
ParseListChoices(jsonString) ==
  LET ListChoices(numberedItems, bulletItems) ==
        IF Len(numberedItems) >= 2
        THEN [ok |-> TRUE, choices |-> <<Impact1(numberedItems[1], <<"Y","o","u"," ","c","h","o","o","s","e"," ","t","h","e"," ","f","i","r","s","t"," ","o","p","t","i","o","n",".">>),
                                         Impact2(numberedItems[2], <<"Y","o","u"," ","c","h","o","o","s","e"," ","t","h","e"," ","s","e","c","o","n","d"," ","o","p","t","i","o","n",".">>)>>]
        ELSE IF Len(bulletItems) >= 2
        THEN [ok |-> TRUE, choices |-> <<Impact1(bulletItems[1], <<"Y","o","u"," ","c","h","o","o","s","e"," ","t","h","i","s"," ","p","a","t","h",".">>),
                                         Impact2(bulletItems[2], <<"Y","o","u"," ","c","h","o","o","s","e"," ","t","h","i","s"," ","d","i","r","e","c","t","i","o","n",".">>)>>]
        ELSE NoParse
  IN ListChoices(ListItemsFrom(jsonString, 1, "numbered"), ListItemsFrom(jsonString, 1, "bullet"))

DefaultParsedChoices ==
  << MkChoice(<<"E","x","p","l","o","r","e"," ","f","u","r","t","h","e","r">>, <<"Y","o","u"," ","d","e","c","i","d","e"," ","t","o"," ","v","e","n","t","u","r","e"," ","d","e","e","p","e","r"," ","i","n","t","o"," ","t","h","e"," ","u","n","k","n","o","w","n",".">>, 80, 10, "slide", 120, 250),
     MkChoice(<<"S","t","a","y"," ","c","a","u","t","i","o","u","s">>, <<"Y","o","u"," ","d","e","c","i","d","e"," ","t","o"," ","c","a","r","e","f","u","l","l","y"," ","o","b","s","e","r","v","e"," ","y","o","u","r"," ","s","u","r","r","o","u","n","d","i","n","g","s"," ","b","e","f","o","r","e"," ","p","r","o","c","e","e","d","i","n","g",".">>, 120, 1, "fade", 110, 200) >>

\* a parseChoicesFromText that scrapes the keys before it tries the array
parseChoicesKeysFirst(choicesText, draws) ==
  LET FirstParsed(a, b, c) ==
        IF b.ok THEN b.choices
        ELSE IF a.ok THEN a.choices
        ELSE IF c.ok THEN c.choices
        ELSE DefaultParsedChoices
      Approaches(jsonString) ==
        FirstParsed(ParseJsonArrayChoices(jsonString, draws), ParseKeyValueChoices(jsonString), ParseListChoices(jsonString))
  IN Approaches(Trim(choicesText))

\* parseChoicesFromText: the choices of the first approach that yields
\* some, else the defaults
parseChoicesFromText(choicesText, draws) ==
  LET FirstParsed(a, b, c) ==
        IF a.ok THEN a.choices
        ELSE IF b.ok THEN b.choices
        ELSE IF c.ok THEN c.choices
        ELSE DefaultParsedChoices
      Approaches(jsonString) ==
        FirstParsed(ParseJsonArrayChoices(jsonString, draws), ParseKeyValueChoices(jsonString), ParseListChoices(jsonString))
  IN Approaches(Trim(choicesText))

(***************************************************************************)
(* Choice extractor of the second implementation (inside generateChoices). *)
(***************************************************************************)
\* String.prototype.split(/[\.|\n|;]/): the pieces between separators
RECURSIVE SplitLinesFrom(_, _)
SplitLinesFrom(s, i) ==
  LET Piece(e) == IF e > Len(s) THEN <<SubSeq(s, i, Len(s))>>
                  ELSE <<SubSeq(s, i, e - 1)>> \o SplitLinesFrom(s, e + 1)
  IN Piece(FirstIn(i, Len(s), LAMBDA k : s[k] \in {".", "|", "\n", ";"}))

MinLineLength == 3

MaxLineLength == 50

GoodLine(line) ==
  /\ Len(line) > MinLineLength /\ Len(line) < MaxLineLength
  /\ \A k \in 1..Len(line) : line[k] \notin {":", "|", "\""}
  /\ line[1] \notin Digits \cup {"-", "*"}

ChoiceLines(choicesText) ==
  LET TrimAll(lines) == [k \in 1..Len(lines) |-> Trim(lines[k])]
  IN SelectSeq(TrimAll(SplitLinesFrom(choicesText, 1)), GoodLine)

\* `You decide to ${line.toLowerCase().replace(/\.$/, '')}.`
DecideTo(line) ==
  LET Bare(low) == IF low # <<>> /\ low[Len(low)] = "." THEN SubSeq(low, 1, Len(low) - 1) ELSE low
  IN <<"Y","o","u"," ","d","e","c","i","d","e"," ","t","o"," ">> \o Bare(ToLower(line)) \o <<".">>

DefaultChoices ==
  << MkChoice(<<"I","n","v","e","s","t","i","g","a","t","e"," ","f","u","r","t","h","e","r">>, <<"Y","o","u"," ","d","e","c","i","d","e"," ","t","o"," ","i","n","v","e","s","t","i","g","a","t","e"," ","f","u","r","t","h","e","r"," ","i","n","t","o"," ","t","h","e"," ","m","y","s","t","e","r","y",".">>, 80, 10, "fade", 120, 200),
     MkChoice(<<"T","a","k","e"," ","a","n"," ","a","l","t","e","r","n","a","t","i","v","e"," ","p","a","t","h">>, <<"Y","o","u"," ","c","h","o","o","s","e"," ","a"," ","d","i","f","f","e","r","e","n","t"," ","d","i","r","e","c","t","i","o","n",","," ","s","e","e","k","i","n","g"," ","a"," ","n","e","w"," ","o","p","p","o","r","t","u","n","i","t","y",".">>, 120, 1, "slide", 130, 250) >>

FailedChoices ==
  << MkChoice(<<"E","x","p","l","o","r","e"," ","t","h","e"," ","u","n","k","n","o","w","n">>, <<"Y","o","u"," ","v","e","n","t","u","r","e"," ","d","e","e","p","e","r"," ","i","n","t","o"," ","t","h","e"," ","m","y","s","t","e","r","i","o","u","s"," ","s","u","r","r","o","u","n","d","i","n","g","s",".">>, 80, 10, "slide", 120, 250),
     MkChoice(<<"P","r","o","c","e","e","d"," ","w","i","t","h"," ","c","a","u","t","i","o","n">>, <<"Y","o","u"," ","m","o","v","e"," ","f","o","r","w","a","r","d"," ","c","a","r","e","f","u","l","l","y",","," ","a","l","e","r","t"," ","t","o"," ","t","h","e"," ","d","a","n","g","e","r","s"," ","a","r","o","u","n","d"," ","y","o","u",".">>, 120, 1, "fade", 110, 200) >>

\* the part of generateChoices after its completion has returned;
\* secondChoiceTransition is Math.random() > 0.5 ? 'zoom' : 'slide'
ChoicesFromLines(choicesText, secondChoiceTransition) ==
  LET LineChoices(lines) ==
        IF Len(lines) >= 2
        THEN << MkChoice(lines[1], DecideTo(lines[1]), 80, 10, "fade", 120, 200),
                MkChoice(lines[2], DecideTo(lines[2]), 120, 1, secondChoiceTransition, 130, 250) >>
        ELSE DefaultChoices
  IN LineChoices(ChoiceLines(choicesText))

(***************************************************************************)
(* Environment presets and prompts.                                        *)
(***************************************************************************)
ForestText == <<"f","o","r","e","s","t">>

CaveText == <<"c","a","v","e">>

RuinsText == <<"r","u","i","n","s">>

ForestPreset ==
  [lighting |-> [intensity |-> 120, color |-> "#fdf4c4", ambient |-> 60, shadows |-> TRUE],
   atmosphere |-> [fog |-> TRUE, fogDensity |-> 2, fogColor |-> "#d8e8f0"],
   metadata |-> [mood |-> <<"m","y","s","t","e","r","i","o","u","s">>, location |-> ForestText, timeOfDay |-> <<"d","a","y">>, weatherConditions |-> <<"c","l","e","a","r">>]]

RuinsPreset ==
  [lighting |-> [intensity |-> 110, color |-> "#e8d8c0", ambient |-> 50, shadows |-> TRUE],
   atmosphere |-> [fog |-> TRUE, fogDensity |-> 3, fogColor |-> "#e0e0d8"],
   metadata |-> [mood |-> <<"a","n","c","i","e","n","t">>, location |-> RuinsText, timeOfDay |-> <<"d","a","y">>, weatherConditions |-> <<"c","l","e","a","r">>]]

CavePreset ==
  [lighting |-> [intensity |-> 40, color |-> "#a0c0e0", ambient |-> 20, shadows |-> TRUE],
   atmosphere |-> [fog |-> TRUE, fogDensity |-> 8, fogColor |-> "#202030"],
   metadata |-> [mood |-> <<"m","y","s","t","e","r","i","o","u","s">>, location |-> CaveText, timeOfDay |-> <<"n","i","g","h","t">>, weatherConditions |-> <<"e","n","c","l","o","s","e","d">>]]

\* baseEnvironments[key] || baseEnvironments.forest (the two implementations
\* hold the same three presets)
environments(key) ==
  IF key = CaveText THEN CavePreset ELSE IF key = RuinsText THEN RuinsPreset ELSE ForestPreset

\* { ...base, ...change }
Spread(base, change) ==
  [k \in DOMAIN base \cup DOMAIN change |-> IF k \in DOMAIN change THEN change[k] ELSE base[k]]

\* "Determine the next environment" of the first implementation
NextEnvironment1(currentBase, generatedText) ==
  LET lowerText == ToLower(generatedText)
  IN IF Includes(lowerText, <<"c","a","v","e">>) \/ Includes(lowerText, <<"c","a","v","e","r","n">>) \/ Includes(lowerText, <<"u","n","d","e","r","g","r","o","u","n","d">>) THEN CaveText
     ELSE IF Includes(lowerText, <<"r","u","i","n">>) \/ Includes(lowerText, <<"a","n","c","i","e","n","t">>) \/ Includes(lowerText, <<"s","t","r","u","c","t","u","r","e">>) THEN RuinsText
     ELSE currentBase

\* a getEnvironment that looks for the ruins before the caves
getEnvironmentRuinsFirst(text) ==
  LET lowerText == ToLower(text)
  IN IF Includes(lowerText, <<"r","u","i","n">>) \/ Includes(lowerText, <<"a","n","c","i","e","n","t">>) \/ Includes(lowerText, <<"t","e","m","p","l","e">>) THEN RuinsText
     ELSE IF Includes(lowerText, <<"c","a","v","e">>) \/ Includes(lowerText, <<"u","n","d","e","r","g","r","o","u","n","d">>) \/ Includes(lowerText, <<"d","a","r","k">>) THEN CaveText
     ELSE ForestText

\* getEnvironment of the second implementation
getEnvironment(text) ==
  LET lowerText == ToLower(text)
  IN IF Includes(lowerText, <<"c","a","v","e">>) \/ Includes(lowerText, <<"u","n","d","e","r","g","r","o","u","n","d">>) \/ Includes(lowerText, <<"d","a","r","k">>) THEN CaveText
     ELSE IF Includes(lowerText, <<"r","u","i","n">>) \/ Includes(lowerText, <<"a","n","c","i","e","n","t">>) \/ Includes(lowerText, <<"t","e","m","p","l","e">>) THEN RuinsText
     ELSE ForestText

DefaultDescription == <<"Y","o","u"," ","f","i","n","d"," ","y","o","u","r","s","e","l","f"," ","i","n"," ","a"," ","m","y","s","t","e","r","i","o","u","s"," ","f","o","r","e","s","t"," ","c","l","e","a","r","i","n","g","."," ","T","h","e"," ","a","i","r"," ","i","s"," ","t","h","i","c","k"," ","w","i","t","h"," ","a","n","t","i","c","i","p","a","t","i","o","n",","," ","a","n","d"," ","s","t","r","a","n","g","e"," ","s","o","u","n","d","s"," ","e","c","h","o"," ","i","n"," ","t","h","e"," ","d","i","s","t","a","n","c","e",".">>

InitialPrompt1 == <<"W","r","i","t","e"," ","a"," ","b","r","i","e","f",","," ","o","n","e","-","l","i","n","e"," ","i","n","t","r","o","d","u","c","t","i","o","n"," ","t","o"," ","a"," ","f","a","n","t","a","s","y"," ","a","d","v","e","n","t","u","r","e">>

InitialPrompt2 == <<"W","r","i","t","e"," ","a","n"," ","e","n","g","a","g","i","n","g"," ","o","p","e","n","i","n","g"," ","t","o"," ","a"," ","f","a","n","t","a","s","y"," ","a","d","v","e","n","t","u","r","e","."," ","\n","E","s","t","a","b","l","i","s","h"," ","a"," ","c","l","e","a","r"," ","s","e","t","t","i","n","g"," ","a","n","d"," ","a","t","m","o","s","p","h","e","r","e"," ","i","n"," ","2","-","3"," ","s","e","n","t","e","n","c","e","s","."," ","\n","U","s","e"," ","s","e","c","o","n","d","-","p","e","r","s","o","n"," ","p","e","r","s","p","e","c","t","i","v","e"," ","(","y","o","u",")"," ","a","n","d"," ","s","e","t"," ","u","p"," ","a","n"," ","i","n","t","r","i","g","u","i","n","g"," ","s","i","t","u","a","t","i","o","n",":">>

SummaryPrompt(text, previousSummary) ==
  <<"\n","S","u","m","m","a","r","i","z","e"," ","t","h","i","s"," ","s","t","o","r","y"," ","i","n"," ","a"," ","s","i","n","g","l","e"," ","c","o","n","c","i","s","e"," ","p","a","r","a","g","r","a","p","h"," ","(","m","a","x"," ","3"," ","s","e","n","t","e","n","c","e","s",")",":","\n","\n","P","r","e","v","i","o","u","s"," ","s","u","m","m","a","r","y",":"," ">> \o previousSummary
  \o <<"\n","\n","N","e","w"," ","c","o","n","t","e","n","t",":"," ">> \o text
  \o <<"\n","\n","K","e","e","p"," ","o","n","l","y"," ","t","h","e"," ","m","o","s","t"," ","i","m","p","o","r","t","a","n","t"," ","p","l","o","t"," ","p","o","i","n","t","s"," ","a","n","d"," ","c","h","a","r","a","c","t","e","r"," ","i","n","f","o","r","m","a","t","i","o","n",".","\n">>

JsonFormatTail == <<"\n","\n","R","E","S","P","O","N","D"," ","W","I","T","H"," ","O","N","L","Y"," ","T","H","I","S"," ","J","S","O","N"," ","F","O","R","M","A","T",":","\n","[","{","\"","t","e","x","t","\"",":","\"","F","i","r","s","t"," ","c","h","o","i","c","e"," ","t","e","x","t","\"",",","\"","c","o","n","s","e","q","u","e","n","c","e","\"",":","\"","F","i","r","s","t"," ","c","h","o","i","c","e"," ","r","e","s","u","l","t","\"","}",",","{","\"","t","e","x","t","\"",":","\"","S","e","c","o","n","d"," ","c","h","o","i","c","e"," ","t","e","x","t","\"",",","\"","c","o","n","s","e","q","u","e","n","c","e","\"",":","\"","S","e","c","o","n","d"," ","c","h","o","i","c","e"," ","r","e","s","u","l","t","\"","}","]","\n","\n","K","e","e","p"," ","e","a","c","h"," ","t","e","x","t"," ","a","n","d"," ","c","o","n","s","e","q","u","e","n","c","e"," ","u","n","d","e","r"," ","1","0"," ","w","o","r","d","s",".">>

InitialChoicesPrompt1 == <<"A","n","s","w","e","r"," ","w","i","t","h"," ","O","N","L","Y"," ","a"," ","J","S","O","N"," ","a","r","r","a","y"," ","a","n","d"," ","n","o","t","h","i","n","g"," ","e","l","s","e","."," ","C","r","e","a","t","e"," ","t","w","o"," ","c","h","o","i","c","e","s"," ","f","o","r"," ","a"," "," ","a","d","v","e","n","t","u","r","e",".">> \o JsonFormatTail

NextChoicesPrompt1(generatedText) ==
  <<"A","n","s","w","e","r"," ","w","i","t","h"," ","O","N","L","Y"," ","a"," ","J","S","O","N"," ","a","r","r","a","y"," ","a","n","d"," ","n","o","t","h","i","n","g"," ","e","l","s","e","."," ","C","r","e","a","t","e"," ","t","w","o"," ","c","h","o","i","c","e","s"," ","b","a","s","e","d"," ","o","n"," ","t","h","i","s"," ","s","i","t","u","a","t","i","o","n",":"," ","\"">> \o generatedText \o <<"\"">> \o JsonFormatTail

buildPrompt(summary, lastParagraph, setting) ==
  <<"\n","G","e","n","r","e",":"," ","F","a","n","t","a","s","y","\n","S","e","t","t","i","n","g",":"," ">> \o setting \o <<"\n","S","t","o","r","y"," ","s","u","m","m","a","r","y",":"," ">> \o summary
  \o <<"\n","\n","L","a","s","t"," ","s","c","e","n","e",":","\n">> \o lastParagraph
  \o <<"\n","\n","W","r","i","t","e"," ","a"," ","b","r","i","e","f"," ","c","o","n","t","i","n","u","a","t","i","o","n"," ","o","f"," ","t","h","i","s"," ","f","a","n","t","a","s","y"," ","s","t","o","r","y"," ","i","n"," ","2","-","3"," ","s","e","n","t","e","n","c","e","s","."," ","B","e"," ","v","i","v","i","d"," ","b","u","t"," ","c","o","n","c","i","s","e",".","\n">>

buildFreshPrompt(summary, lastParagraph, setting, metadata) ==
  <<"\n","R","E","S","E","T"," ","C","O","N","T","E","X","T","\n","G","e","n","r","e",":"," ","F","a","n","t","a","s","y"," ","A","d","v","e","n","t","u","r","e","\n","S","e","t","t","i","n","g",":"," ","A"," ">> \o metadata.mood \o <<" ">> \o setting
  \o <<" ","d","u","r","i","n","g"," ">> \o metadata.timeOfDay \o <<","," ">> \o metadata.weatherConditions \o <<" ","c","o","n","d","i","t","i","o","n","s","\n","\n","C","o","m","p","l","e","t","e"," ","S","t","o","r","y"," ","S","u","m","m","a","r","y",":"," ">> \o summary
  \o <<"\n","\n","M","o","s","t"," ","R","e","c","e","n","t"," ","S","c","e","n","e",":","\n">> \o lastParagraph
  \o <<"\n","\n","W","r","i","t","e"," ","a"," ","f","r","e","s","h",","," ","f","o","c","u","s","e","d"," ","c","o","n","t","i","n","u","a","t","i","o","n"," ","o","f"," ","t","h","i","s"," ","f","a","n","t","a","s","y"," ","s","t","o","r","y"," ","i","n"," ","2","-","3"," ","s","e","n","t","e","n","c","e","s",".","\n","B","e"," ","v","i","v","i","d"," ","b","u","t"," ","c","o","n","c","i","s","e","."," ","M","a","t","c","h"," ","t","h","e"," ","e","s","t","a","b","l","i","s","h","e","d"," ","m","o","o","d"," ","a","n","d"," ","s","e","t","t","i","n","g",".","\n","A","v","o","i","d"," ","r","e","p","e","a","t","i","n","g"," ","p","h","r","a","s","e","s"," ","f","r","o","m"," ","t","h","e"," ","s","u","m","m","a","r","y",".","\n">>

NewSummaryPrompt(storySummary) ==
  <<"\n","C","r","e","a","t","e"," ","a"," ","f","r","e","s","h",","," ","c","o","n","c","i","s","e"," ","s","u","m","m","a","r","y"," ","(","3"," ","s","e","n","t","e","n","c","e","s"," ","m","a","x",")"," ","o","f"," ","t","h","i","s"," ","f","a","n","t","a","s","y"," ","s","t","o","r","y",":","\n","\n">> \o storySummary
  \o <<"\n","\n","F","o","c","u","s"," ","o","n","l","y"," ","o","n"," ","t","h","e"," ","m","o","s","t"," ","i","m","p","o","r","t","a","n","t"," ","p","l","o","t"," ","p","o","i","n","t","s"," ","a","n","d"," ","c","h","a","r","a","c","t","e","r"," ","d","e","v","e","l","o","p","m","e","n","t",".","\n","C","a","p","t","u","r","e"," ","t","h","e"," ","e","s","s","e","n","c","e"," ","o","f"," ","t","h","e"," ","s","t","o","r","y"," ","w","i","t","h","o","u","t"," ","u","s","i","n","g"," ","r","e","p","e","t","i","t","i","v","e"," ","l","a","n","g","u","a","g","e",".","\n">>

ContextLength == 200

ChoicesPrompt2(context) ==
  <<"B","a","s","e","d"," ","o","n"," ","t","h","i","s"," ","f","a","n","t","a","s","y"," ","a","d","v","e","n","t","u","r","e"," ","c","o","n","t","e","x","t",":"," ","\"">> \o SliceLast(context, ContextLength)
  \o <<"\""," ","\n","\n","G","e","n","e","r","a","t","e"," ","t","w","o"," ","d","i","s","t","i","n","c","t",","," ","c","o","m","p","e","l","l","i","n","g"," ","c","h","o","i","c","e","s"," ","f","o","r"," ","w","h","a","t"," ","t","h","e"," ","p","r","o","t","a","g","o","n","i","s","t"," ","c","o","u","l","d"," ","d","o"," ","n","e","x","t",".","\n","E","a","c","h"," ","c","h","o","i","c","e"," ","s","h","o","u","l","d",":","\n","1","."," ","B","e"," ","b","r","i","e","f"," ","(","3","-","7"," ","w","o","r","d","s",")","\n","2","."," ","O","f","f","e","r"," ","a"," ","c","l","e","a","r"," ","a","c","t","i","o","n","\n","3","."," ","S","u","g","g","e","s","t"," ","d","i","f","f","e","r","e","n","t"," ","a","p","p","r","o","a","c","h","e","s","/","d","i","r","e","c","t","i","o","n","s","\n","4","."," ","F","i","t"," ","t","h","e"," ","c","u","r","r","e","n","t"," ","s","t","o","r","y"," ","s","i","t","u","a","t","i","o","n","\n","\n","F","o","r","m","a","t"," ","e","a","c","h"," ","c","h","o","i","c","e"," ","o","n"," ","a"," ","n","e","w"," ","l","i","n","e",":">>

FreshPrompt2(setting, storySummary, consequence) ==
  <<"F","a","n","t","a","s","y"," ","a","d","v","e","n","t","u","r","e"," ","s","e","t","t","i","n","g",":"," ">> \o setting \o <<"\n"," "," "," "," "," "," ","\n","P","r","e","v","i","o","u","s"," ","e","v","e","n","t","s",":"," ">> \o storySummary
  \o <<"\n","\n","C","u","r","r","e","n","t"," ","s","i","t","u","a","t","i","o","n",":"," ">> \o consequence
  \o <<"\n","\n","C","o","n","t","i","n","u","e"," ","t","h","e"," ","a","d","v","e","n","t","u","r","e"," ","b","y"," ","d","e","s","c","r","i","b","i","n","g"," ","w","h","a","t"," ","h","a","p","p","e","n","s"," ","n","e","x","t","."," ","U","s","e"," ","v","i","v","i","d"," ","d","e","t","a","i","l","s"," ","a","n","d"," ","s","e","c","o","n","d","-","p","e","r","s","o","n"," ","p","e","r","s","p","e","c","t","i","v","e",".","\n","W","r","i","t","e"," ","2","-","3"," ","s","e","n","t","e","n","c","e","s"," ","t","h","a","t"," ","a","d","v","a","n","c","e"," ","t","h","e"," ","s","t","o","r","y"," ","i","n"," ","a","n"," ","i","n","t","e","r","e","s","t","i","n","g"," ","w","a","y",":">>

PromptSummaryTail == 300

StandardPrompt2(storySummary, choice) ==
  <<"F","a","n","t","a","s","y"," ","a","d","v","e","n","t","u","r","e"," ","i","n"," ","p","r","o","g","r","e","s","s",":","\n"," "," "," "," "," "," ","\n","S","t","o","r","y"," ","s","o"," ","f","a","r",":"," ","\"">> \o SliceLast(storySummary, PromptSummaryTail)
  \o <<"\"","\n","\n","T","h","e"," ","p","r","o","t","a","g","o","n","i","s","t"," ","j","u","s","t"," ","c","h","o","s","e"," ","t","o",":"," ">> \o choice.text \o <<"\n","T","h","i","s"," ","l","e","a","d","s"," ","t","o",":"," ">> \o choice.consequence
  \o <<"\n","\n","C","o","n","t","i","n","u","e"," ","t","h","e"," ","s","t","o","r","y"," ","w","i","t","h"," ","2","-","3"," ","v","i","v","i","d"," ","s","e","n","t","e","n","c","e","s"," ","t","h","a","t"," ","a","d","v","a","n","c","e"," ","t","h","e"," ","p","l","o","t","."," ","\n","U","s","e"," ","s","e","c","o","n","d","-","p","e","r","s","o","n"," ","p","e","r","s","p","e","c","t","i","v","e"," ","(","y","o","u",")"," ","a","n","d"," ","i","n","c","l","u","d","e"," ","s","e","n","s","o","r","y"," ","d","e","t","a","i","l","s",":">>

\* REFRESH_PROMPT_AFTER_SEGMENTS
RefreshPromptAfterSegments == 3

\* the cap of the first implementation's fallback summary
SimpleSummaryLength == 200

\* maxSummaryLength of the second implementation
MaxSummaryLength == 1000

\* the catch branch of generateSummary: "a simple concatenation"
SimpleSummary(text, previousSummary) ==
  Substring(IF previousSummary # <<>>
            THEN previousSummary \o <<" ","T","h","e","n",","," ">> \o SplitFirst(text, ".") \o <<".">>
            ELSE SplitFirst(text, ".") \o <<".">>, 0, SimpleSummaryLength)

MkSegment(text, baseEnvironment, lighting, atmosphere, props, choices, metadata) ==
  [text |-> text,
   environment |-> [baseEnvironment |-> baseEnvironment, lighting |-> lighting, atmosphere |-> atmosphere, props |-> props],
   choices |-> choices,
   metadata |-> metadata]

\* the segment generateInitialStory returns from its try block
InitialSegment(text, choices) ==
  MkSegment(text, ForestText, ForestPreset.lighting, ForestPreset.atmosphere, <<>>, choices, ForestPreset.metadata)

\* a catch block of generateInitialStory that answers with the choices the
\* choice extractor falls back to
InitialFallbackParsedDefaults(version) == InitialSegment(DefaultDescription, DefaultParsedChoices)

\* the segment generateInitialStory returns from its catch block
InitialFallbackSegment(version) ==
  IF version = 1
  THEN InitialSegment(DefaultDescription,
         << MkChoice(<<"E","x","p","l","o","r","e"," ","f","u","r","t","h","e","r">>, <<"Y","o","u"," ","d","e","c","i","d","e"," ","t","o"," ","v","e","n","t","u","r","e"," ","d","e","e","p","e","r"," ","i","n","t","o"," ","t","h","i","s"," ","m","y","s","t","e","r","i","o","u","s"," ","f","o","r","e","s","t",".">>, 80, 10, "slide", 120, 200),
            MkChoice(<<"S","t","a","y"," ","c","a","u","t","i","o","u","s">>, <<"Y","o","u"," ","d","e","c","i","d","e"," ","t","o"," ","c","a","r","e","f","u","l","l","y"," ","o","b","s","e","r","v","e"," ","y","o","u","r"," ","s","u","r","r","o","u","n","d","i","n","g","s"," ","b","e","f","o","r","e"," ","p","r","o","c","e","e","d","i","n","g",".">>, 140, 1, "fade", 110, 200) >>)
  ELSE InitialSegment(<<"Y","o","u"," ","f","i","n","d"," ","y","o","u","r","s","e","l","f"," ","i","n"," ","a"," ","m","y","s","t","e","r","i","o","u","s"," ","f","o","r","e","s","t"," ","c","l","e","a","r","i","n","g","."," ","T","h","e"," ","a","i","r"," ","i","s"," ","t","h","i","c","k"," ","w","i","t","h"," ","a","n","t","i","c","i","p","a","t","i","o","n",","," ","a","n","d"," ","s","t","r","a","n","g","e"," ","s","o","u","n","d","s"," ","e","c","h","o"," ","i","n"," ","t","h","e"," ","d","i","s","t","a","n","c","e","."," ","T","h","e"," ","a","n","c","i","e","n","t"," ","t","r","e","e","s"," ","a","r","o","u","n","d"," ","y","o","u"," ","s","e","e","m"," ","t","o"," ","w","a","t","c","h"," ","y","o","u","r"," ","e","v","e","r","y"," ","m","o","v","e",".">>,
         << MkChoice(<<"E","x","p","l","o","r","e"," ","t","h","e"," ","f","o","r","e","s","t">>, <<"Y","o","u"," ","v","e","n","t","u","r","e"," ","d","e","e","p","e","r"," ","i","n","t","o"," ","t","h","e"," ","m","y","s","t","e","r","i","o","u","s"," ","f","o","r","e","s","t",".">>, 80, 10, "slide", 120, 200),
            MkChoice(<<"L","o","o","k"," ","f","o","r"," ","a"," ","p","a","t","h">>, <<"Y","o","u"," ","s","e","a","r","c","h"," ","f","o","r"," ","a"," ","c","l","e","a","r"," ","p","a","t","h"," ","t","h","r","o","u","g","h"," ","t","h","e"," ","t","r","e","e","s",".">>, 120, 1, "fade", 110, 200) >>)

\* a try block that keeps the metadata of the current segment
NextSegment1KeepingMetadata(currentStory, choice, fullNewText, generatedText, newChoices) ==
  LET nextEnvironment == NextEnvironment1(currentStory.environment.baseEnvironment, generatedText)
  IN MkSegment(fullNewText, nextEnvironment,
               Spread(currentStory.environment.lighting, choice.environmentImpact.lightingChange),
               Spread(currentStory.environment.atmosphere, choice.environmentImpact.atmosphereChange),
               currentStory.environment.props, newChoices,
               currentStory.metadata)

\* the segment the first generateNextStorySegment returns from its try block:
\* lighting and atmosphere are the current segment's with the choice's deltas
NextSegment1(currentStory, choice, fullNewText, generatedText, newChoices) ==
  LET nextEnvironment == NextEnvironment1(currentStory.environment.baseEnvironment, generatedText)
      environmentSettings == environments(nextEnvironment)
  IN MkSegment(fullNewText, nextEnvironment,
               Spread(currentStory.environment.lighting, choice.environmentImpact.lightingChange),
               Spread(currentStory.environment.atmosphere, choice.environmentImpact.atmosphereChange),
               currentStory.environment.props, newChoices,
               Spread(environmentSettings.metadata, [location |-> nextEnvironment]))

\* "Join text with proper spacing and avoiding redundancy"
FullText2(choice, generatedText) ==
  IF ~StartsWith(generatedText, choice.consequence)
  THEN choice.consequence
       \o (IF ~EndsWith(choice.consequence, <<".">>) /\ ~EndsWith(choice.consequence, <<"!">>) /\ ~EndsWith(choice.consequence, <<"?">>)
           THEN <<"."," ">> ELSE <<" ">>)
       \o generatedText
  ELSE generatedText

\* the segment the second generateNextStorySegment returns from its try block:
\* lighting and atmosphere are the new environment's preset with the deltas
NextSegment2(currentStory, choice, fullText, choices) ==
  LET envType == getEnvironment(fullText)
      env == environments(envType)
  IN MkSegment(fullText, envType,
               Spread(env.lighting, choice.environmentImpact.lightingChange),
               Spread(env.atmosphere, choice.environmentImpact.atmosphereChange),
               currentStory.environment.props, choices,
               Spread(env.metadata, [location |-> envType]))

\* a catch block of generateNextStorySegment that leaves the choice's deltas
\* out of the environment
NextFallbackWithoutDeltas(version, currentStory, choice) ==
  MkSegment(choice.consequence
            \o (IF version = 1
                THEN <<" ","A","s"," ","y","o","u"," ","c","o","n","t","i","n","u","e"," ","y","o","u","r"," ","j","o","u","r","n","e","y",","," ","n","e","w"," ","p","a","t","h","s"," ","r","e","v","e","a","l"," ","t","h","e","m","s","e","l","v","e","s",".">>
                ELSE <<" ","A","s"," ","y","o","u"," ","c","o","n","t","i","n","u","e"," ","y","o","u","r"," ","j","o","u","r","n","e","y",","," ","n","e","w"," ","p","a","t","h","s"," ","r","e","v","e","a","l"," ","t","h","e","m","s","e","l","v","e","s"," ","b","e","f","o","r","e"," ","y","o","u","."," ","T","h","e"," ","a","t","m","o","s","p","h","e","r","e"," ","s","h","i","f","t","s",","," ","h","i","n","t","i","n","g"," ","a","t"," ","u","n","k","n","o","w","n"," ","a","d","v","e","n","t","u","r","e","s"," ","a","h","e","a","d",".">>),
            currentStory.environment.baseEnvironment,
            currentStory.environment.lighting,
            currentStory.environment.atmosphere,
            currentStory.environment.props,
            currentStory.choices,
            Spread(currentStory.metadata, [location |-> currentStory.environment.baseEnvironment]))

\* the segment generateNextStorySegment returns from its catch block
NextFallbackSegment(version, currentStory, choice) ==
  MkSegment(choice.consequence
            \o (IF version = 1
                THEN <<" ","A","s"," ","y","o","u"," ","c","o","n","t","i","n","u","e"," ","y","o","u","r"," ","j","o","u","r","n","e","y",","," ","n","e","w"," ","p","a","t","h","s"," ","r","e","v","e","a","l"," ","t","h","e","m","s","e","l","v","e","s",".">>
                ELSE <<" ","A","s"," ","y","o","u"," ","c","o","n","t","i","n","u","e"," ","y","o","u","r"," ","j","o","u","r","n","e","y",","," ","n","e","w"," ","p","a","t","h","s"," ","r","e","v","e","a","l"," ","t","h","e","m","s","e","l","v","e","s"," ","b","e","f","o","r","e"," ","y","o","u","."," ","T","h","e"," ","a","t","m","o","s","p","h","e","r","e"," ","s","h","i","f","t","s",","," ","h","i","n","t","i","n","g"," ","a","t"," ","u","n","k","n","o","w","n"," ","a","d","v","e","n","t","u","r","e","s"," ","a","h","e","a","d",".">>),
            currentStory.environment.baseEnvironment,
            Spread(currentStory.environment.lighting, choice.environmentImpact.lightingChange),
            Spread(currentStory.environment.atmosphere, choice.environmentImpact.atmosphereChange),
            currentStory.environment.props,
            IF version = 1
            THEN << MkChoice(<<"E","x","p","l","o","r","e"," ","t","h","e"," ","a","r","e","a">>, <<"Y","o","u"," ","t","a","k","e"," ","t","i","m","e"," ","t","o"," ","e","x","p","l","o","r","e"," ","y","o","u","r"," ","s","u","r","r","o","u","n","d","i","n","g","s",".">>, 110, 5, "zoom", 130, 250),
                    MkChoice(<<"C","o","n","t","i","n","u","e"," ","o","n"," ","y","o","u","r"," ","p","a","t","h">>, <<"Y","o","u"," ","d","e","c","i","d","e"," ","t","o"," ","k","e","e","p"," ","m","o","v","i","n","g"," ","f","o","r","w","a","r","d",".">>, 90, 3, "slide", 120, 200) >>
            ELSE << MkChoice(<<"E","x","p","l","o","r","e"," ","f","u","r","t","h","e","r">>, <<"Y","o","u"," ","d","e","c","i","d","e"," ","t","o"," ","e","x","p","l","o","r","e"," ","t","h","e"," ","a","r","e","a"," ","m","o","r","e"," ","t","h","o","r","o","u","g","h","l","y",".">>, 80, 10, "slide", 120, 250),
                    MkChoice(<<"T","a","k","e"," ","a"," ","c","a","u","t","i","o","u","s"," ","a","p","p","r","o","a","c","h">>, <<"Y","o","u"," ","p","r","o","c","e","e","d"," ","w","i","t","h"," ","c","a","u","t","i","o","n",","," ","c","a","r","e","f","u","l","l","y"," ","o","b","s","e","r","v","i","n","g"," ","y","o","u","r"," ","s","u","r","r","o","u","n","d","i","n","g","s",".">>, 120, 1, "fade", 110, 200) >>,
            Spread(currentStory.metadata, [location |-> currentStory.environment.baseEnvironment]))

(***************************************************************************)
(* The state of the program.                                               *)
(***************************************************************************)
VARIABLES
  impl,            \* which of the two storyGeneration implementations is built
  generator,       \* module variable generator: TRUE when it holds a pipeline
  isInitializing,  \* module variable isInitializing
  transformers,    \* module variable transformers: TRUE when the library is loaded
  store,           \* the zustand story store
  proc,            \* the callers of the hook: where each one is in its async call
  loads,           \* history of the model loads: started, succeeded, starved, last outcome
  callers,         \* the callers that take part in a run
  limits,          \* the bounds of a run
  turns,           \* hook calls started so far
  app,             \* the App component: where preloadONNX is, and its React state
  parser,          \* a call of the choice extractor: its argument and what it returned
  classifier,      \* a classification of a text as an environment: its arguments and what it returned
  surprises        \* external calls so far whose outcome was not the typical one

vars == <<impl, generator, isInitializing, transformers, store, proc, loads, callers, limits, turns, app, parser, classifier, surprises>>

\* the bounds of the serialized specification
MaxTurns == 3

MaxSurprises == 2

\* the bounds of the long serialized specification
LongTurns == 5

LongSurprises == 1

\* the bounds of the concurrent specification
NumCallers == 2

ConcurrentTurns == 2

ConcurrentSurprises == 1

\* the bounds of the specification of the mounted App
AppTurns == 3

AppSurprises == 1

CallerIds == 1..NumCallers

\* the initial state of create<StoryState>(...); null is the empty sequence
InitialStore ==
  [currentSegment |-> <<>>, storyHistory |-> <<>>, storySummary |-> <<>>, isLoading |-> FALSE,
   error |-> <<>>, downloadProgress |-> 0, currentFile |-> "", isONNXInitialized |-> FALSE,
   segmentsSincePromptRefresh |-> 0]

\* a setCurrentSegment that starts the history over
setCurrentSegmentReplacing(st, segment) ==
  [st EXCEPT !.currentSegment = <<segment>>, !.storyHistory = <<segment>>]

setCurrentSegment(st, segment) ==
  [st EXCEPT !.currentSegment = <<segment>>, !.storyHistory = Append(@, segment)]

setLoading(st, loading) == [st EXCEPT !.isLoading = loading]

setError(st, error) == [st EXCEPT !.error = error, !.isLoading = FALSE]

setProgress(st, progress, file) == [st EXCEPT !.downloadProgress = progress, !.currentFile = file]

setONNXInitialized(st, initialized) == [st EXCEPT !.isONNXInitialized = initialized]

updateStorySummary(st, newSummary) == [st EXCEPT !.storySummary = newSummary]

incrementSegmentCount(st) == [st EXCEPT !.segmentsSincePromptRefresh = @ + 1]

resetSegmentCount(st) == [st EXCEPT !.segmentsSincePromptRefresh = 0]

\* what a completed call of a narrative function left behind: how it settled,
\* its arguments, the counter at entry and at exit, the sites at which it
\* called generateText, in order, those at which the call failed, and the
\* functions in which it wrote storySummary, in order, and the completion
\* the model gave to its last prompt
NoCall ==
  [op |-> "none", settled |-> "none", segment |-> <<>>, currentStory |-> <<>>, choice |-> <<>>,
   entryCount |-> 0, exitCount |-> 0, shouldRefresh |-> FALSE, calledSites |-> <<>>, failedSites |-> {},
   freshSummary |-> <<>>, summaryWrites |-> <<>>, exitSummary |-> <<>>, reply |-> <<>>]

\* the frame of a caller that is not inside a hook call
IdleFrame ==
  [op |-> "idle", at |-> "none", gt |-> "none", prompt |-> <<>>, initialized |-> FALSE,
   result |-> [kind |-> "none", text |-> <<>>], waitedOn |-> 0,
   currentStory |-> <<>>, choice |-> <<>>, storySummary |-> <<>>, entryCount |-> 0,
   shouldRefresh |-> FALSE, workingSummary |-> <<>>, generatedText |-> <<>>, fullText |-> <<>>,
   calledSites |-> <<>>, failedSites |-> {}, freshSummary |-> <<>>, summaryWrites |-> <<>>, reply |-> <<>>,
   last |-> NoCall]

\* the App component before it is mounted: useState(true), useState('Starting up...'),
\* retryCount = 0 of the preload effect; onnx is where its initializeONNX() call is,
\* attempts counts the initializeONNX() calls of preloadONNX, cleanedUp holds once
\* the cleanup of the preload effect has run (mounted = false)
Unmounted ==
  [at |-> "unmounted", onnx |-> "none", isInitializing |-> TRUE, initializationStep |-> "Starting up...",
   retryCount |-> 0, storyComplete |-> FALSE, displayed |-> 0, debugMode |-> FALSE,
   attempts |-> 0, cleanedUp |-> FALSE, isPromptRefreshing |-> FALSE]

NoLoads == [started |-> 0, succeeded |-> {}, starved |-> {}, outcome |-> "none", selfTest |-> "none"]

\* the positions of generateText at which the caller is carrying out a load
LoadPositions ==
  {"import", "delay30", "delay60", "delay500", "tokenizer", "pipeline", "selftest",
   "p10", "p30", "p60", "p100", "p25load", "p75test", "p100ready"}

\* the positions at which the caller waits for a timer
TimerPositions ==
  {"delay30", "delay60", "delay500", "p10", "p30", "p60", "p100", "p25load", "p75test", "p100ready", "g25", "g75", "g100"}

\* the machine state the steps below transform: the module variables, the store
\* and the load history
Machine ==
  [generator |-> generator, isInitializing |-> isInitializing, transformers |-> transformers,
   store |-> store, loads |-> loads]

Progress(m, progress, file) == [m EXCEPT !.store = setProgress(@, progress, file)]

(***************************************************************************)
(* What the language model can answer.                                     *)
(***************************************************************************)
\* a completion: the generated_text is the prompt followed by the body when
\* echo holds (return_full_text), the body alone otherwise
TypicalStory == [kind |-> "ok", echo |-> TRUE, body |-> <<" ","T","h","e"," ","p","a","t","h"," ","b","e","n","d","s"," ","n","o","r","t","h","."," ","Y","o","u"," ","w","a","l","k"," ","o","n",".">>]

CaveStory == [kind |-> "ok", echo |-> FALSE, body |-> <<"A"," ","d","a","r","k"," ","c","a","v","e"," ","o","p","e","n","s"," ","a","h","e","a","d","."," ","Y","o","u"," ","s","t","e","p"," ","i","n","s","i","d","e",","," ","t","o","r","c","h"," ","h","e","l","d"," ","h","i","g","h",".">>]

TypicalSummary == [kind |-> "ok", echo |-> FALSE, body |-> <<"A"," ","t","r","a","v","e","l","l","e","r"," ","f","o","l","l","o","w","s"," ","a"," ","f","o","r","e","s","t"," ","p","a","t","h",".">>]

\* a run-on summary without a sentence terminator, longer than any cap
LongSummary ==
  [kind |-> "ok", echo |-> FALSE,
   body |-> FlattenRange([i \in 1..30 |-> <<"t","h","e"," ","r","o","a","d"," ","r","u","n","s"," ","o","n"," ","p","a","s","t"," ","a","n","o","t","h","e","r"," ","h","i","l","l",","," ">>], 1, 30)]

TypicalChoices == [kind |-> "ok", echo |-> TRUE, body |-> <<"\n","O","p","e","n"," ","t","h","e"," ","d","o","o","r","\n","F","o","l","l","o","w"," ","t","h","e"," ","r","i","v","e","r">>]

ThreeChoices ==
  [kind |-> "ok", echo |-> FALSE,
   body |-> <<"["," ","{","\"","t","e","x","t","\"",":","\"","R","u","n","\"",",","\"","c","o","n","s","e","q","u","e","n","c","e","\"",":","\"","Y","o","u"," ","f","l","e","e","\"","}",",","{","\"","t","e","x","t","\"",":","\"","H","i","d","e","\"",",","\"","c","o","n","s","e","q","u","e","n","c","e","\"",":","\"","Y","o","u"," ","h","i","d","e","\"","}",",","{","\"","t","e","x","t","\"",":","\"","F","i","g","h","t","\"",",","\"","c","o","n","s","e","q","u","e","n","c","e","\"",":","\"","Y","o","u"," ","a","t","t","a","c","k","\"","}"," ","]">>]

\* the call rejects
Thrown == [kind |-> "throw", echo |-> FALSE, body |-> <<>>]

\* the call resolves to a value without a generated_text field
BadShape == [kind |-> "bad", echo |-> FALSE, body |-> <<>>]

SiteKind(site) ==
  IF site \in {"init_text", "next_text"} THEN "story"
  ELSE IF site \in {"init_choices", "next_choices"} THEN "choices"
  ELSE "summary"

Typical(site) ==
  IF SiteKind(site) = "story" THEN TypicalStory
  ELSE IF SiteKind(site) = "choices" THEN TypicalChoices
  ELSE TypicalSummary

\* what the model can answer to the prompt of a site
Outcomes(site) ==
  {Thrown, BadShape}
  \cup (IF SiteKind(site) = "story" THEN {TypicalStory, CaveStory}
        ELSE IF SiteKind(site) = "choices" THEN {TypicalChoices, ThreeChoices}
        ELSE {TypicalSummary, LongSummary})

AllOutcomes == {Thrown, BadShape, TypicalStory, CaveStory, TypicalChoices, ThreeChoices, TypicalSummary, LongSummary}

\* result[0].generated_text of a completion
GeneratedTextOf(outcome, prompt) == IF outcome.echo THEN prompt \o outcome.body ELSE outcome.body

\* what Math.random() gives while the choices of one segment are built
Randoms ==
  { [draws |-> <<LowDraw, HighDraw, LowDraw>>, transition |-> "slide"],
    [draws |-> <<HighDraw, LowDraw, HighDraw>>, transition |-> "zoom"] }

NoRandom == CHOOSE r \in Randoms : r.transition = "slide"

(***************************************************************************)
(* generateText and the narrative functions, as transformations of the     *)
(* machine state m and of the caller's frame f.  Each operator is the code *)
(* that runs without an await in between.                                  *)
(***************************************************************************)
\* StartLoad without `isInitializing = true`
StartLoadUnflagged(m) ==
  [m EXCEPT !.loads.started = @ + 1, !.loads.outcome = "none", !.loads.selfTest = "none"]

\* initializeGenerator passes its guard: the initializing flag is raised
StartLoad(m) ==
  [m EXCEPT !.isInitializing = TRUE, !.loads.started = @ + 1, !.loads.outcome = "none", !.loads.selfTest = "none"]

\* generateText(prompt) up to the first await of initializeGenerator, first
\* implementation: initializeGenerator, initializeComponents, initializeONNX
EnterGenerateText1(m, f) ==
  IF ~m.generator /\ ~m.isInitializing
  THEN LET m1 == StartLoad(m)
       IN IF ~m1.store.isONNXInitialized \/ ~m1.transformers
          THEN IF ~m1.transformers
               THEN [m |-> Progress(m1, 10, "Loading transformers library"), f |-> [f EXCEPT !.gt = "import"]]
               ELSE [m |-> Progress(m1, 30, "Loading resources"), f |-> [f EXCEPT !.gt = "delay30"]]
          ELSE [m |-> m1, f |-> [f EXCEPT !.gt = "tokenizer"]]
  ELSE [m |-> m,
        f |-> [f EXCEPT !.gt = "initialized", !.initialized = m.generator,
                        !.waitedOn = IF m.isInitializing THEN m.loads.started ELSE 0]]

\* the same of the second implementation
EnterGenerateText2(m, f) ==
  IF m.generator
  THEN [m |-> m, f |-> [f EXCEPT !.gt = "initialized", !.initialized = TRUE,
                                 !.waitedOn = IF m.isInitializing THEN m.loads.started ELSE 0]]
  ELSE IF m.isInitializing
  THEN [m |-> m, f |-> [f EXCEPT !.gt = "initialized", !.initialized = FALSE, !.waitedOn = m.loads.started]]
  ELSE LET m1 == StartLoad(m)
       IN IF ~m1.store.isONNXInitialized
          THEN [m |-> Progress(m1, 10, "Loading transformers library"), f |-> [f EXCEPT !.gt = "p10"]]
          ELSE IF m1.transformers
          THEN [m |-> Progress(m1, 25, "Loading text generation model"), f |-> [f EXCEPT !.gt = "p25load"]]
          ELSE [m |-> m1, f |-> [f EXCEPT !.gt = "initialized", !.initialized = FALSE]]

\* a narrative function calls generateText(prompt) at the given site
CallGenerateText(version, m, f, site, prompt) ==
  LET f1 == [f EXCEPT !.at = site, !.prompt = prompt, !.initialized = FALSE, !.waitedOn = 0,
                      !.result = [kind |-> "none", text |-> <<>>],
                      !.calledSites = Append(@, site)]
  IN IF version = 1 THEN EnterGenerateText1(m, f1) ELSE EnterGenerateText2(m, f1)

\* the hook after the narrative function has settled: setCurrentSegment or
\* setError, then setLoading(false) in the finally block
Settle(m, f, outcome) ==
  LET st == IF outcome.settled = "resolved"
            THEN setCurrentSegment(m.store, outcome.segment[1])
            ELSE setError(m.store, <<"Failed to generate">>)
  IN [m |-> [m EXCEPT !.store = setLoading(st, FALSE)],
      f |-> [IdleFrame EXCEPT !.last =
               [op |-> f.op, settled |-> outcome.settled, segment |-> outcome.segment,
                currentStory |-> f.currentStory, choice |-> f.choice,
                entryCount |-> f.entryCount, exitCount |-> m.store.segmentsSincePromptRefresh,
                shouldRefresh |-> f.shouldRefresh, calledSites |-> f.calledSites,
                failedSites |-> f.failedSites, freshSummary |-> f.freshSummary,
                summaryWrites |-> f.summaryWrites, exitSummary |-> m.store.storySummary,
                reply |-> f.reply]]]

Resolved(segment) == [settled |-> "resolved", segment |-> <<segment>>]

Rejected == [settled |-> "rejected", segment |-> <<>>]

\* a catch block of generateNextStorySegment that rethrows
NextCatchRethrows(version, currentStory, choice) == Rejected

\* the catch block of generateNextStorySegment
NextCatch(version, currentStory, choice) ==
  Resolved(NextFallbackSegment(version, currentStory, choice))

\* what generateSummary(text, previousSummary) returns once its completion has settled
SummaryOf(res, text, previousSummary) ==
  IF res.ok THEN Trim(res.text) ELSE SimpleSummary(text, previousSummary)

\* currentStory.text.split(".").slice(-2).join(".").trim()
LastParagraph(currentStory) == Trim(SplitLastTwoJoined(currentStory.text, "."))

\* what a narrative function does next: it settles with an outcome, or it
\* calls generateText(prompt) at a site
SettleWith(m, f, outcome) == [settle |-> TRUE, m |-> m, f |-> f, outcome |-> outcome, site |-> "none", prompt |-> <<>>]

CallAt(m, f, site, prompt) == [settle |-> FALSE, m |-> m, f |-> f, outcome |-> Rejected, site |-> site, prompt |-> prompt]

\* the frame of a call that has called updateStorySummary: the function the
\* write stands in is added to the writes of the call
Wrote(f, writer) == [f EXCEPT !.summaryWrites = Append(@, writer)]

\* the first implementation after the generateText call at site f.at has
\* settled with res; choices is what parseChoicesFromText makes of res.text
Continue1(m, f, res, choices) ==
  LET cur == f.currentStory[1]
      choice == f.choice[1]
      base == cur.environment.baseEnvironment
      \* the catch block of generateInitialStory up to its await: the summary
      \* of the fallback text is requested
      InitialCatch == CallAt(m, f, "fallback_summary", SummaryPrompt(DefaultDescription, <<>>))
      \* generatedText || environment.defaultDescription
      OrDefault(text) == IF text = <<>> THEN DefaultDescription ELSE text
  IN CASE f.at = "init_text" ->
            IF res.ok
            THEN CallAt(m, [f EXCEPT !.generatedText = res.text], "init_summary", SummaryPrompt(res.text, <<>>))
            ELSE InitialCatch
       [] f.at = "init_summary" ->
            CallAt([m EXCEPT !.store = updateStorySummary(@, SummaryOf(res, f.generatedText, <<>>))],
                   Wrote(f, "generateInitialStory"), "init_choices", InitialChoicesPrompt1)
       [] f.at = "init_choices" ->
            IF res.ok
            THEN SettleWith(m, f, Resolved(InitialSegment(OrDefault(f.generatedText), choices)))
            ELSE InitialCatch
       [] f.at = "fallback_summary" ->
            SettleWith([m EXCEPT !.store = updateStorySummary(@, SummaryOf(res, DefaultDescription, <<>>))],
                       Wrote(f, "generateInitialStory"), Resolved(InitialFallbackSegment(1)))
       [] f.at = "refresh" ->
            IF res.ok
            THEN CallAt([m EXCEPT !.store = resetSegmentCount(updateStorySummary(@, res.text))],
                        Wrote([f EXCEPT !.workingSummary = res.text, !.freshSummary = <<res.text>>], "refreshStoryPrompt"),
                        "next_text", buildFreshPrompt(res.text, LastParagraph(cur), base, cur.metadata))
            ELSE CallAt(m, [f EXCEPT !.workingSummary = f.storySummary],
                        "next_text", buildFreshPrompt(f.storySummary, LastParagraph(cur), base, cur.metadata))
       [] f.at = "next_text" ->
            IF ~res.ok THEN SettleWith(m, f, NextCatch(1, cur, choice))
            ELSE IF ~f.shouldRefresh
            THEN CallAt(m, [f EXCEPT !.generatedText = res.text, !.fullText = choice.consequence \o <<" ">> \o res.text],
                        "next_summary", SummaryPrompt(choice.consequence \o <<" ">> \o res.text, f.workingSummary))
            ELSE CallAt(m, [f EXCEPT !.generatedText = res.text, !.fullText = choice.consequence \o <<" ">> \o res.text],
                        "next_choices", NextChoicesPrompt1(res.text))
       [] f.at = "next_summary" ->
            CallAt([m EXCEPT !.store = updateStorySummary(@, SummaryOf(res, f.fullText, f.workingSummary))],
                   Wrote(f, "generateNextStorySegment"), "next_choices", NextChoicesPrompt1(f.generatedText))
       [] f.at = "next_choices" ->
            IF res.ok
            THEN SettleWith(m, f, Resolved(NextSegment1(cur, choice, f.fullText, f.generatedText, choices)))
            ELSE SettleWith(m, f, NextCatch(1, cur, choice))

\* the second implementation after the generateText call at site f.at has
\* settled with res; choices is what generateChoices makes of it
Continue2(m, f, res, choices) ==
  LET cur == f.currentStory[1]
      choice == f.choice[1]
  IN CASE f.at = "init_text" ->
            IF res.ok
            THEN CallAt([m EXCEPT !.store = updateStorySummary(@, res.text)],
                        Wrote([f EXCEPT !.generatedText = res.text], "generateInitialStory"),
                        "init_choices", ChoicesPrompt2(res.text))
            ELSE SettleWith(m, f, Resolved(InitialFallbackSegment(2)))
       [] f.at = "init_choices" ->
            SettleWith(m, f, Resolved(InitialSegment(f.generatedText, choices)))
       [] f.at = "next_text" ->
            IF ~res.ok THEN SettleWith(m, f, NextCatch(2, cur, choice))
            ELSE CallAt([m EXCEPT !.store = updateStorySummary(@,
                           SliceLast(f.storySummary \o <<" ">> \o FullText2(choice, res.text), MaxSummaryLength))],
                        Wrote([f EXCEPT !.generatedText = res.text, !.fullText = FullText2(choice, res.text)],
                              "generateNextStorySegment"),
                        "next_choices", ChoicesPrompt2(FullText2(choice, res.text)))
       [] f.at = "next_choices" ->
            SettleWith(m, f, Resolved(NextSegment2(cur, choice, f.fullText, choices)))

\* generateChoices once its completion has settled
ChoicesOf(res, rnd) ==
  IF res.ok THEN ChoicesFromLines(res.text, rnd.transition) ELSE FailedChoices

Completed(text) == [ok |-> TRUE, text |-> text]

Failure == [ok |-> FALSE, text |-> <<>>]

\* generateText has settled with f.result: its caller goes on to its next
\* await, or settles itself and the hook with it
Resume(version, m, f, rnd) ==
  LET res == [ok |-> f.result.kind = "ok", text |-> f.result.text]
      f1 == [f EXCEPT !.gt = "none", !.failedSites = IF f.result.kind = "ok" THEN @ ELSE @ \cup {f.at}]
      Go(next) == IF next.settle THEN Settle(next.m, next.f, next.outcome)
                  ELSE CallGenerateText(version, next.m, next.f, next.site, next.prompt)
  IN Go(IF version = 1
        THEN Continue1(m, f1, res, IF SiteKind(f.at) = "choices" THEN parseChoicesFromText(res.text, rnd.draws) ELSE <<>>)
        ELSE Continue2(m, f1, res, IF SiteKind(f.at) = "choices" THEN ChoicesOf(res, rnd) ELSE <<>>))

\* generateText returns or throws: its promise settles
Return(m, f, res) ==
  [m |-> m, f |-> [f EXCEPT !.gt = "settled", !.result = [kind |-> IF res.ok THEN "ok" ELSE "failed", text |-> res.text]]]

\* the catch block of initializeGenerator, then the one of generateText
LoadFailed(m, f) ==
  Return([m EXCEPT !.isInitializing = FALSE, !.generator = FALSE, !.loads.outcome = "failed"], f, Failure)

\* generateNextStorySegment of the first implementation up to its first await
EnterNext1(m, f) ==
  LET cur == f.currentStory[1]
      storySummary == m.store.storySummary
      segmentsSincePromptRefresh == m.store.segmentsSincePromptRefresh
      m1 == [m EXCEPT !.store = incrementSegmentCount(@)]
      shouldRefreshPrompt == segmentsSincePromptRefresh >= RefreshPromptAfterSegments
      f1 == [f EXCEPT !.storySummary = storySummary, !.entryCount = segmentsSincePromptRefresh,
                      !.shouldRefresh = shouldRefreshPrompt, !.workingSummary = storySummary]
  IN IF shouldRefreshPrompt
     THEN CallGenerateText(1, m1, f1, "refresh", NewSummaryPrompt(storySummary))
     ELSE CallGenerateText(1, m1, f1, "next_text",
                           buildPrompt(storySummary, LastParagraph(cur), cur.environment.baseEnvironment))

\* generateNextStorySegment of the second implementation up to its first await
EnterNext2(m, f) ==
  LET cur == f.currentStory[1]
      choice == f.choice[1]
      storySummary == m.store.storySummary
      segmentsSincePromptRefresh == m.store.segmentsSincePromptRefresh
      m1 == [m EXCEPT !.store = incrementSegmentCount(@)]
      shouldRefresh == segmentsSincePromptRefresh >= RefreshPromptAfterSegments
      f1 == [f EXCEPT !.storySummary = storySummary, !.entryCount = segmentsSincePromptRefresh,
                      !.shouldRefresh = shouldRefresh, !.workingSummary = storySummary]
  IN IF shouldRefresh
     THEN CallGenerateText(2, [m1 EXCEPT !.store = resetSegmentCount(@)], f1, "next_text",
                           FreshPrompt2(cur.environment.baseEnvironment, storySummary, choice.consequence))
     ELSE CallGenerateText(2, m1, f1, "next_text", StandardPrompt2(storySummary, choice))

(***************************************************************************)
(* The actions: one per hook call and one per await that is resumed.       *)
(***************************************************************************)
InitProgram(cs, lim) ==
  /\ impl \in {1, 2}
  /\ generator = FALSE
  /\ isInitializing = FALSE
  /\ transformers = FALSE
  /\ store = InitialStore
  /\ proc = [p \in CallerIds |-> IdleFrame]
  /\ loads = NoLoads
  /\ callers = cs
  /\ limits = lim
  /\ turns = 0
  /\ surprises = 0
  /\ app = Unmounted

\* the program as it starts; the choice extractor is called from within the
\* narrative functions only
InitWith(cs, lim) ==
  /\ InitProgram(cs, lim)
  /\ parser = [choicesText |-> <<>>, returned |-> <<>>]
  /\ classifier = [currentBase |-> <<>>, text |-> <<>>, returned |-> <<>>]

Init == InitWith({1}, [turns |-> MaxTurns, surprises |-> MaxSurprises])

InitLong == InitWith({1}, [turns |-> LongTurns, surprises |-> LongSurprises])

InitConcurrent == InitWith(CallerIds, [turns |-> ConcurrentTurns, surprises |-> ConcurrentSurprises])

\* an outcome other than the typical one is allowed while the run has surprises left
Allowed(surprising) == ~surprising \/ surprises < limits.surprises

\* the step of caller p ends in machine state r.m, frame r.f and App state a
CommitApp(p, r, surprising, started, a) ==
  /\ generator' = r.m.generator
  /\ isInitializing' = r.m.isInitializing
  /\ transformers' = r.m.transformers
  /\ store' = r.m.store
  /\ loads' = r.m.loads
  /\ proc' = [proc EXCEPT ![p] = r.f]
  /\ surprises' = IF surprising THEN surprises + 1 ELSE surprises
  /\ turns' = IF started THEN turns + 1 ELSE turns
  /\ app' = a
  /\ UNCHANGED <<impl, callers, limits, parser, classifier>>

\* a step of the service or of the hook leaves the App's own state alone
Commit(p, r, surprising, started) == CommitApp(p, r, surprising, started, app)

\* the frame of a hook call that begins: nothing is left of the previous call
\* but its record
NewFrame(p, op) == [IdleFrame EXCEPT !.op = op, !.last = proc[p].last]

\* useStoryGeneration.generateStoryStart up to its first await
generateStoryStart(p) ==
  /\ p \in callers
  /\ proc[p].op = "idle"
  /\ turns < limits.turns
  /\ store.currentSegment = <<>>
  /\ LET m == [Machine EXCEPT !.store = setLoading(setError(@, <<>>), TRUE)]
         f == NewFrame(p, "generateStoryStart")
     IN Commit(p, CallGenerateText(impl, m, f, "init_text", IF impl = 1 THEN InitialPrompt1 ELSE InitialPrompt2),
               FALSE, TRUE)

\* useStoryGeneration.generateNextSegment(choice) up to its first await, for
\* the choice the player picked among those of the current segment
generateNextSegment(p, index) ==
  /\ p \in callers
  /\ proc[p].op = "idle"
  /\ turns < limits.turns
  /\ store.currentSegment # <<>>
  /\ index \in 1..Len(store.currentSegment[1].choices)
  /\ LET m == [Machine EXCEPT !.store = setLoading(setError(@, <<>>), TRUE)]
         currentSegment == store.currentSegment[1]
         f == [NewFrame(p, "generateNextSegment") EXCEPT
                 !.currentStory = <<currentSegment>>, !.choice = <<currentSegment.choices[index]>>]
     IN Commit(p, IF impl = 1 THEN EnterNext1(m, f) ELSE EnterNext2(m, f), FALSE, TRUE)

\* await import('@xenova/transformers') settles
ModuleImported(p, ok) ==
  /\ proc[p].gt = "import"
  /\ Allowed(~ok)
  /\ LET m == Machine
         f == proc[p]
     IN Commit(p,
          IF ok
          THEN [m |-> Progress([m EXCEPT !.transformers = TRUE], 30, "Loading resources"),
                f |-> [f EXCEPT !.gt = IF impl = 1 THEN "delay30" ELSE "p30"]]
          ELSE LoadFailed([m EXCEPT !.store = setONNXInitialized(@, FALSE)], f),
          ~ok, FALSE)

\* AutoTokenizer.from_pretrained settles (first implementation)
TokenizerLoaded(p, ok) ==
  /\ proc[p].gt = "tokenizer"
  /\ Allowed(~ok)
  /\ LET m == Machine
         f == proc[p]
     IN Commit(p,
          IF ~ok THEN LoadFailed(m, f)
          ELSE IF m.transformers
          THEN [m |-> Progress(m, 100, "tokenizer.json"), f |-> [f EXCEPT !.gt = "pipeline"]]
          ELSE [m |-> m, f |-> [f EXCEPT !.gt = "initialized", !.initialized = m.generator]],
          ~ok, FALSE)

\* transformers.pipeline('text-generation', ...) settles
PipelineCreated(p, ok) ==
  /\ proc[p].gt = "pipeline"
  /\ Allowed(~ok)
  /\ LET m == Machine
         f == proc[p]
         m1 == [m EXCEPT !.generator = TRUE]
     IN Commit(p,
          IF ~ok THEN LoadFailed(m, f)
          ELSE IF impl = 1
          THEN [m |-> Progress(m1, 100, "model.onnx"), f |-> [f EXCEPT !.gt = "selftest"]]
          ELSE [m |-> Progress(m1, 75, "Testing model"), f |-> [f EXCEPT !.gt = "p75test"]],
          ~ok, FALSE)

LoadSucceeded(m) ==
  [m EXCEPT !.isInitializing = FALSE, !.loads.outcome = "ok", !.loads.succeeded = @ \cup {m.loads.started}]

\* the self-test generator("Test") settles: with a completion ("ok"), with a
\* value without generated_text ("bad"), or it rejects ("throw")
SelfTested(p, outcome) ==
  /\ proc[p].gt = "selftest"
  /\ Allowed(outcome # "ok")
  /\ LET m == [Machine EXCEPT !.loads.selfTest = outcome]
         f == proc[p]
     IN Commit(p,
          IF impl = 1
          THEN IF outcome = "ok"
               THEN [m |-> LoadSucceeded(m), f |-> [f EXCEPT !.gt = "initialized", !.initialized = TRUE]]
               ELSE LoadFailed(m, f)
          ELSE IF outcome = "throw"
               THEN LoadFailed(m, f)
               ELSE [m |-> Progress(m, 100, "Model ready"), f |-> [f EXCEPT !.gt = "p100ready"]],
          outcome # "ok", FALSE)

\* the randomness a step needs: only the steps that build choices draw any
RandomsAt(site) == IF SiteKind(site) = "choices" THEN Randoms ELSE {NoRandom}

\* generateText goes on after `await initializeGenerator()`
InitializeReturned(p) ==
  /\ proc[p].gt = "initialized"
  /\ LET m == Machine
         f == proc[p]
         notInitialized == IF impl = 1 THEN ~f.initialized \/ ~m.generator ELSE ~m.generator
         starved == IF f.waitedOn # 0 THEN [m EXCEPT !.loads.starved = @ \cup {f.waitedOn}] ELSE m
     IN Commit(p,
          IF notInitialized THEN Return(starved, f, Failure)
          ELSE IF impl = 1 THEN [m |-> m, f |-> [f EXCEPT !.gt = "generate"]]
          ELSE [m |-> Progress(m, 25, "Crafting your story..."), f |-> [f EXCEPT !.gt = "g25"]],
          FALSE, FALSE)

\* generateText after `await generator(prompt, ...)` has settled, with a
\* result that holds generatedText (kind ok), with one of another shape (bad)
\* or with an error thrown (throw)
Completes(p, kind, generatedText, surprising) ==
  LET m == Machine
      f == [proc[p] EXCEPT !.reply = IF kind = "ok" THEN generatedText ELSE <<>>]
  IN Commit(p,
       IF impl = 1
       THEN IF kind = "ok"
            THEN Return(m, f, Completed(cleanGeneratedText(generatedText, f.prompt)))
            ELSE Return(m, f, Failure)
       ELSE IF kind = "throw"
            THEN Return(m, f, Failure)
            ELSE [m |-> Progress(m, 75, "Refining results..."),
                  f |-> [f EXCEPT !.gt = "g75", !.result = [kind |-> kind, text |-> generatedText]]],
       surprising, FALSE)

\* the completion generator(prompt, ...) settles
Generated(p, outcome) ==
  /\ proc[p].gt = "generate"
  /\ outcome \in Outcomes(proc[p].at)
  /\ Allowed(outcome # Typical(proc[p].at))
  /\ Completes(p, outcome.kind, GeneratedTextOf(outcome, proc[p].prompt), outcome # Typical(proc[p].at))

\* a timer the caller awaits elapses: delay(500) of the first implementation,
\* the delay(50) of updateProgress of the second
TimerElapsed(p) ==
  /\ proc[p].gt \in TimerPositions
  /\ LET m == Machine
         f == proc[p]
         at == f.gt
         ready == [m EXCEPT !.store = setONNXInitialized(@, TRUE)]
     IN Commit(p,
          CASE at = "delay30" -> [m |-> Progress(m, 60, "Preparing story engine"), f |-> [f EXCEPT !.gt = "delay60"]]
            [] at = "delay60" ->
                 [m |-> [m EXCEPT !.store = setONNXInitialized(setProgress(@, 100, "Initialization complete"), TRUE)],
                  f |-> [f EXCEPT !.gt = "delay500"]]
            [] at = "delay500" ->
                 IF ~m.transformers THEN LoadFailed(m, f)
                 ELSE [m |-> m, f |-> [f EXCEPT !.gt = "tokenizer"]]
            [] at = "p10" -> [m |-> m, f |-> [f EXCEPT !.gt = "import"]]
            [] at = "p30" -> [m |-> Progress(m, 60, "Preparing story engine"), f |-> [f EXCEPT !.gt = "p60"]]
            [] at = "p60" -> [m |-> Progress(m, 100, "Initialization complete"), f |-> [f EXCEPT !.gt = "p100"]]
            [] at = "p100" ->
                 IF ready.transformers
                 THEN [m |-> Progress(ready, 25, "Loading text generation model"), f |-> [f EXCEPT !.gt = "p25load"]]
                 ELSE [m |-> ready, f |-> [f EXCEPT !.gt = "initialized", !.initialized = FALSE]]
            [] at = "p25load" -> [m |-> m, f |-> [f EXCEPT !.gt = "pipeline"]]
            [] at = "p75test" ->
                 IF m.generator THEN [m |-> m, f |-> [f EXCEPT !.gt = "selftest"]]
                 ELSE [m |-> Progress(m, 100, "Model ready"), f |-> [f EXCEPT !.gt = "p100ready"]]
            [] at = "p100ready" ->
                 [m |-> LoadSucceeded(m), f |-> [f EXCEPT !.gt = "initialized", !.initialized = m.generator]]
            [] at = "g25" -> [m |-> m, f |-> [f EXCEPT !.gt = "generate"]]
            [] at = "g75" ->
                 IF f.result.kind = "bad" THEN Return(m, f, Failure)
                 ELSE [m |-> Progress(m, 100, "Ready"),
                       f |-> [f EXCEPT !.gt = "g100", !.result = [kind |-> "ok", text |-> cleanText(f.result.text, f.prompt)]]]
            [] at = "g100" -> Return(m, f, Completed(f.result.text)),
          FALSE, FALSE)

\* the narrative function goes on after `await generateText(...)`
GenerateTextSettled(p, rnd) ==
  /\ proc[p].gt = "settled"
  /\ rnd \in RandomsAt(proc[p].at)
  /\ Commit(p, Resume(impl, Machine, proc[p], rnd), FALSE, FALSE)

\* the most choices a segment of this model can hold
MaxChoices == 3

Next ==
  \/ \E p \in CallerIds : generateStoryStart(p)
  \/ \E p \in CallerIds, index \in 1..MaxChoices : generateNextSegment(p, index)
  \/ \E p \in CallerIds, ok \in BOOLEAN : ModuleImported(p, ok)
  \/ \E p \in CallerIds, ok \in BOOLEAN : TokenizerLoaded(p, ok)
  \/ \E p \in CallerIds, ok \in BOOLEAN : PipelineCreated(p, ok)
  \/ \E p \in CallerIds, outcome \in {"ok", "bad", "throw"} : SelfTested(p, outcome)
  \/ \E p \in CallerIds : InitializeReturned(p)
  \/ \E p \in CallerIds, outcome \in AllOutcomes : Generated(p, outcome)
  \/ \E p \in CallerIds : TimerElapsed(p)
  \/ \E p \in CallerIds, rnd \in Randoms : GenerateTextSettled(p, rnd)

\* one caller, one hook call at a time
Spec == Init /\ [][Next]_vars

\* one caller, more turns and fewer surprises
SpecLong == InitLong /\ [][Next]_vars

\* two callers whose hook calls interleave at the awaits
SpecConcurrent == InitConcurrent /\ [][Next]_vars

(***************************************************************************)
(* The App component: the effects it runs when it is mounted, the preload  *)
(* with its retries, and the handlers of the user's input.  The App calls  *)
(* the hook on frame 1.                                                    *)
(***************************************************************************)
\* maxRetries of the preload effect
MaxRetries == 3

\* what localStorage can hold of an earlier session when the App is mounted:
\* the saved summary (absent: the empty string) and the saved segments count
SavedStates ==
  { [summary |-> <<>>, count |-> 0],
    [summary |-> <<"A"," ","t","r","a","v","e","l","l","e","r"," ","f","o","l","l","o","w","s"," ","a"," ","f","o","r","e","s","t"," ","p","a","t","h",".">>, count |-> 2] }

\* a loading overlay that is not rendered for isLoading
OverlayShownUnlessLoading == app.isInitializing \/ store.error # <<>>

\* the loading overlay is rendered: isInitializing || isLoading || error
OverlayShown == app.isInitializing \/ store.isLoading \/ store.error # <<>>

\* the LoadingIndicator renders its error branch, with the Try Again button
RetryShown == OverlayShown /\ store.error # <<>>

\* preloadONNX from its first line to the first await of initializeONNX()
preloadONNX(m, a) ==
  LET a1 == [a EXCEPT !.isInitializing = TRUE, !.initializationStep = "Initializing ONNX runtime...", !.at = "onnx",
                      !.attempts = @ + 1]
  IN IF impl = 1
     THEN IF ~m.transformers
          THEN [m |-> Progress(m, 10, "Loading transformers library"), a |-> [a1 EXCEPT !.onnx = "import"]]
          ELSE [m |-> Progress(m, 30, "Loading resources"), a |-> [a1 EXCEPT !.onnx = "delay30"]]
     ELSE [m |-> Progress(m, 10, "Loading transformers library"), a |-> [a1 EXCEPT !.onnx = "p10"]]

\* the App is mounted: the effect that restores the saved summary and the
\* saved segments count, then the preload effect up to its first await
Mount(saved) ==
  /\ app.at = "unmounted"
  /\ LET restored == IF saved.summary # <<>> THEN updateStorySummary(store, saved.summary) ELSE store
         counted == [restored EXCEPT !.segmentsSincePromptRefresh = @ + saved.count]
         r == preloadONNX([Machine EXCEPT !.store = counted], app)
     IN CommitApp(1, [m |-> r.m, f |-> proc[1]], FALSE, FALSE, r.a)

\* a PreloadImported whose catch block retries while retryCount <= maxRetries
PreloadImportedRetryingOnceMore(ok) ==
  /\ app.onnx = "import"
  /\ LET m == Machine
         RetryMessage == <<"Retrying initialization (attempt 1/3)...", "Retrying initialization (attempt 2/3)...",
                           "Retrying initialization (attempt 3/3)...", "Retrying initialization (attempt 4/3)...">>
         Caught == IF app.cleanedUp THEN [app EXCEPT !.at = "stopped", !.onnx = "none"]
                   ELSE IF app.retryCount <= MaxRetries
                   THEN [app EXCEPT !.retryCount = @ + 1, !.initializationStep = RetryMessage[app.retryCount + 1],
                                    !.at = "retryWait", !.onnx = "none"]
                   ELSE [app EXCEPT !.initializationStep = "Failed to initialize. Please refresh the page.",
                                    !.isInitializing = FALSE, !.at = "failed", !.onnx = "none"]
     IN CommitApp(1,
          [m |-> IF ok THEN Progress([m EXCEPT !.transformers = TRUE], 30, "Loading resources")
                 ELSE [m EXCEPT !.store = setONNXInitialized(@, FALSE)],
           f |-> proc[1]],
          FALSE, FALSE,
          IF ok THEN [app EXCEPT !.onnx = IF impl = 1 THEN "delay30" ELSE "p30"] ELSE Caught)

\* await import('@xenova/transformers') of the App's initializeONNX() call
\* settles; when it rejects, the catch block of preloadONNX retries after two
\* seconds or, with the retries used up, gives up
PreloadImported(ok) ==
  /\ app.onnx = "import"
  /\ LET m == Machine
         RetryMessage == <<"Retrying initialization (attempt 1/3)...", "Retrying initialization (attempt 2/3)...",
                           "Retrying initialization (attempt 3/3)...">>
         Caught == IF app.cleanedUp THEN [app EXCEPT !.at = "stopped", !.onnx = "none"]
                   ELSE IF app.retryCount < MaxRetries
                   THEN [app EXCEPT !.retryCount = @ + 1, !.initializationStep = RetryMessage[app.retryCount + 1],
                                    !.at = "retryWait", !.onnx = "none"]
                   ELSE [app EXCEPT !.initializationStep = "Failed to initialize. Please refresh the page.",
                                    !.isInitializing = FALSE, !.at = "failed", !.onnx = "none"]
     IN CommitApp(1,
          [m |-> IF ok THEN Progress([m EXCEPT !.transformers = TRUE], 30, "Loading resources")
                 ELSE [m EXCEPT !.store = setONNXInitialized(@, FALSE)],
           f |-> proc[1]],
          FALSE, FALSE,
          IF ok THEN [app EXCEPT !.onnx = IF impl = 1 THEN "delay30" ELSE "p30"] ELSE Caught)

\* a timer the preload awaits elapses: a delay of initializeONNX, after the
\* last of which preloadONNX calls generateStoryStart(), or the two seconds
\* before a retry
PreloadTimerElapsed ==
  /\ app.onnx \in {"delay30", "delay60", "p10", "p30", "p60", "p100"} \/ app.at = "retryWait"
  /\ LET m == Machine
         Step(progress, file, onnx) == [m |-> Progress(m, progress, file), f |-> proc[1], a |-> [app EXCEPT !.onnx = onnx]]
         ready == [m EXCEPT !.store = setONNXInitialized(@, TRUE)]
         Started(r) ==
           [m |-> r.m, f |-> r.f,
            a |-> [app EXCEPT !.initializationStep = "Starting story generation...", !.at = "start", !.onnx = "none"]]
         StartStory(m1) ==
           Started(CallGenerateText(impl, [m1 EXCEPT !.store = setLoading(setError(@, <<>>), TRUE)],
                                    NewFrame(1, "generateStoryStart"), "init_text",
                                    IF impl = 1 THEN InitialPrompt1 ELSE InitialPrompt2))
         Retry(r) == [m |-> r.m, f |-> proc[1], a |-> r.a]
         \* `if (!mounted) return;` after an await
         Stopped(m1) == [m |-> m1, f |-> proc[1], a |-> [app EXCEPT !.at = "stopped", !.onnx = "none"]]
         Start(m1) == IF app.cleanedUp THEN Stopped(m1) ELSE StartStory(m1)
         r == CASE app.at = "retryWait" -> IF app.cleanedUp THEN Stopped(m) ELSE Retry(preloadONNX(m, app))
                [] app.onnx = "delay30" -> Step(60, "Preparing story engine", "delay60")
                [] app.onnx = "delay60" -> Start([m EXCEPT !.store = setONNXInitialized(setProgress(@, 100, "Initialization complete"), TRUE)])
                [] app.onnx = "p10" -> [m |-> m, f |-> proc[1], a |-> [app EXCEPT !.onnx = "import"]]
                [] app.onnx = "p30" -> Step(60, "Preparing story engine", "p60")
                [] app.onnx = "p60" -> Step(100, "Initialization complete", "p100")
                [] app.onnx = "p100" -> Start(ready)
     IN CommitApp(1, [m |-> r.m, f |-> r.f], FALSE, app.onnx \in {"delay60", "p100"} /\ ~app.cleanedUp, r.a)

\* preloadONNX goes on after `await generateStoryStart()`
PreloadResumed ==
  /\ app.at = "start"
  /\ proc[1].op = "idle"
  /\ CommitApp(1, [m |-> Machine, f |-> proc[1]], FALSE, FALSE,
               IF app.cleanedUp THEN [app EXCEPT !.at = "stopped"]
               ELSE [app EXCEPT !.initializationStep = "Ready", !.isInitializing = FALSE, !.at = "ready"])

\* StoryDisplay has shown the whole text of the current segment: onComplete
onComplete ==
  /\ ~app.cleanedUp
  /\ store.currentSegment # <<>>
  /\ app.displayed < Len(store.storyHistory)
  /\ CommitApp(1, [m |-> Machine, f |-> proc[1]], FALSE, FALSE,
               [app EXCEPT !.storyComplete = TRUE, !.displayed = Len(store.storyHistory)])

\* the player clicks a choice of the current segment: the animation effect
\* of the choice is written into the props of the current segment, the
\* object that is also the last entry of the history, and the hook's
\* generateNextSegment(choice) runs up to its first await
handleChoiceSelected(index) ==
  /\ ~app.cleanedUp
  /\ app.storyComplete
  /\ ~OverlayShown
  /\ proc[1].op = "idle"
  /\ turns < limits.turns
  /\ store.currentSegment # <<>>
  /\ index \in 1..Len(store.currentSegment[1].choices)
  /\ LET choice == store.currentSegment[1].choices[index]
         effect == choice.environmentImpact.animationEffect
         OrElse(x, d) == IF x = 0 THEN d ELSE x
         animationProp ==
           [type |-> "animationEffect",
            position |-> <<IF effect.transitionType = "fade" THEN 0 ELSE IF effect.transitionType = "slide" THEN 1 ELSE 2,
                           OrElse(effect.intensity, 100), OrElse(effect.duration, 200)>>,
            scale |-> <<OrElse(effect.intensity, 100), 100, 100>>]
         currentSegment ==
           [store.currentSegment[1] EXCEPT !.environment.props =
              Append(SelectSeq(@, LAMBDA prop : prop.type # "animationEffect"), animationProp)]
         mutated == [store EXCEPT !.currentSegment = <<currentSegment>>,
                                  !.storyHistory = [@ EXCEPT ![Len(@)] = currentSegment]]
         m == [Machine EXCEPT !.store = setLoading(setError(mutated, <<>>), TRUE)]
         f == [NewFrame(1, "generateNextSegment") EXCEPT !.currentStory = <<currentSegment>>, !.choice = <<choice>>]
     IN CommitApp(1, IF impl = 1 THEN EnterNext1(m, f) ELSE EnterNext2(m, f), FALSE, TRUE,
                  [app EXCEPT !.storyComplete = FALSE])

\* a key is pressed: Ctrl+Shift+D toggles the debug mode; Ctrl+Shift+R, in
\* debug mode and with a current segment, resets the segments count and
\* shows "Prompt Refreshed!" for a second and a half
handleKeyDown(key) ==
  /\ app.at # "unmounted"
  /\ ~app.cleanedUp
  /\ turns < limits.turns
  /\ CommitApp(1,
       [m |-> IF key = "R" /\ app.debugMode /\ store.currentSegment # <<>>
              THEN [Machine EXCEPT !.store = resetSegmentCount(@)] ELSE Machine,
        f |-> proc[1]],
       FALSE, TRUE,
       IF key = "D" THEN [app EXCEPT !.debugMode = ~@]
       ELSE IF app.debugMode /\ store.currentSegment # <<>> THEN [app EXCEPT !.isPromptRefreshing = TRUE]
       ELSE app)

\* the timer of handleKeyDown elapses: setIsPromptRefreshing(false)
PromptRefreshShown ==
  /\ app.isPromptRefreshing
  /\ CommitApp(1, [m |-> Machine, f |-> proc[1]], FALSE, FALSE, [app EXCEPT !.isPromptRefreshing = FALSE])

\* the player clicks the text of the current segment while it is being typed:
\* handleClick of StoryDisplay shows the whole text and calls onComplete; the
\* interval that types the text is not cleared and calls onComplete again
\* when it reaches the end of the text
handleClick ==
  /\ ~app.cleanedUp
  /\ ~OverlayShown
  /\ store.currentSegment # <<>>
  /\ app.displayed < Len(store.storyHistory)
  /\ ~app.storyComplete
  /\ CommitApp(1, [m |-> Machine, f |-> proc[1]], FALSE, FALSE, [app EXCEPT !.storyComplete = TRUE])

\* the App is unmounted: the cleanup of the preload effect sets mounted = false
Unmount ==
  /\ app.at # "unmounted"
  /\ ~app.cleanedUp
  /\ CommitApp(1, [m |-> Machine, f |-> proc[1]], FALSE, FALSE, [app EXCEPT !.cleanedUp = TRUE])

\* the App drives the hook; the service steps are those of Next, but for the
\* import of the library, which the preload has done before any generateText
NextApp ==
  \/ \E saved \in SavedStates : Mount(saved)
  \/ \E ok \in BOOLEAN : PreloadImported(ok)
  \/ PreloadTimerElapsed
  \/ PreloadResumed
  \/ onComplete
  \/ \E index \in 1..MaxChoices : handleChoiceSelected(index)
  \/ \E key \in {"D", "R"} : handleKeyDown(key)
  \/ PromptRefreshShown
  \/ \E p \in CallerIds, ok \in BOOLEAN : TokenizerLoaded(p, ok)
  \/ \E p \in CallerIds, ok \in BOOLEAN : PipelineCreated(p, ok)
  \/ \E p \in CallerIds, outcome \in {"ok", "bad", "throw"} : SelfTested(p, outcome)
  \/ \E p \in CallerIds : InitializeReturned(p)
  \/ \E p \in CallerIds, outcome \in AllOutcomes : Generated(p, outcome)
  \/ \E p \in CallerIds : TimerElapsed(p)
  \/ \E p \in CallerIds, rnd \in Randoms : GenerateTextSettled(p, rnd)

\* the mounted App: no caller but the App itself
InitApp == InitWith({}, [turns |-> AppTurns, surprises |-> AppSurprises])

SpecApp == InitApp /\ [][NextApp]_vars

\* the bounds of the specification of the player's clicks
ClickTurns == 2

ClickSurprises == 1

\* the App with the click of the player that shows the choices early
NextClicks ==
  \/ \E saved \in SavedStates : Mount(saved)
  \/ \E ok \in BOOLEAN : PreloadImported(ok)
  \/ PreloadTimerElapsed
  \/ PreloadResumed
  \/ onComplete
  \/ handleClick
  \/ \E index \in 1..MaxChoices : handleChoiceSelected(index)
  \/ \E p \in CallerIds, ok \in BOOLEAN : TokenizerLoaded(p, ok)
  \/ \E p \in CallerIds, ok \in BOOLEAN : PipelineCreated(p, ok)
  \/ \E p \in CallerIds, outcome \in {"ok", "bad", "throw"} : SelfTested(p, outcome)
  \/ \E p \in CallerIds : InitializeReturned(p)
  \/ \E p \in CallerIds, outcome \in AllOutcomes : Generated(p, outcome)
  \/ \E p \in CallerIds : TimerElapsed(p)
  \/ \E p \in CallerIds, rnd \in Randoms : GenerateTextSettled(p, rnd)

InitClicks == InitWith({}, [turns |-> ClickTurns, surprises |-> ClickSurprises])

SpecClicks == InitClicks /\ [][NextClicks]_vars

\* the bounds of the specification of the keys
KeyTurns == 4

KeySurprises == 0

InitKeys == InitWith({}, [turns |-> KeyTurns, surprises |-> KeySurprises])

SpecKeys == InitKeys /\ [][NextApp]_vars

\* the bounds of the specification of the startup
StartupTurns == 1

StartupSurprises == 2

\* the startup of the App, which may be unmounted at any time: the preload
\* and the steps of the service it has started
NextStartup ==
  \/ \E saved \in SavedStates : Mount(saved)
  \/ Unmount
  \/ \E ok \in BOOLEAN : PreloadImported(ok)
  \/ PreloadTimerElapsed
  \/ PreloadResumed
  \/ \E p \in CallerIds, ok \in BOOLEAN : TokenizerLoaded(p, ok)
  \/ \E p \in CallerIds, ok \in BOOLEAN : PipelineCreated(p, ok)
  \/ \E p \in CallerIds, outcome \in {"ok", "bad", "throw"} : SelfTested(p, outcome)
  \/ \E p \in CallerIds : InitializeReturned(p)
  \/ \E p \in CallerIds, outcome \in AllOutcomes : Generated(p, outcome)
  \/ \E p \in CallerIds : TimerElapsed(p)
  \/ \E p \in CallerIds, rnd \in Randoms : GenerateTextSettled(p, rnd)

\* a continuation of the startup is due: a promise or a timer the preload
\* or the service awaits can settle
StartupPending ==
  \/ app.onnx # "none"
  \/ app.at = "retryWait"
  \/ app.at = "start" /\ proc[1].op = "idle"
  \/ proc[1].gt # "none"

InitStartup == InitWith({}, [turns |-> StartupTurns, surprises |-> StartupSurprises])

\* every promise the startup awaits settles and every timer elapses: weak
\* fairness of the steps other than the unmounting, with the condition that
\* enables them written out
SpecStartup ==
  /\ InitStartup
  /\ [][NextStartup]_vars
  /\ ([]<>(~StartupPending) \/ []<><<app.cleanedUp' = app.cleanedUp>>_vars)

(***************************************************************************)
(* Further answers of the language model: a continuation that restates the *)
(* consequence of the choice, and a well-formed array of two choices.      *)
(***************************************************************************)
\* the bounds of the specification with the further answers
RepliesTurns == 2

RepliesSurprises == 1

Replies == {"restated", "echoed", "pair"}

\* the array of two choices the model answers a choices prompt with
PairOfChoices == <<"[","{","\"","t","e","x","t","\"",":","\"","R","u","n","\"",",","\"","c","o","n","s","e","q","u","e","n","c","e","\"",":","\"","Y","o","u"," ","f","l","e","e","\"","}",",","{","\"","t","e","x","t","\"",":","\"","H","i","d","e","\"",",","\"","c","o","n","s","e","q","u","e","n","c","e","\"",":","\"","Y","o","u"," ","h","i","d","e","\"","}","]">>

\* the completion generator(prompt, ...) settles with one of the further
\* answers: at the continuation of a turn the consequence of the choice and
\* a sentence, alone (restated) or after the echoed prompt (echoed); at a
\* choices prompt the echoed prompt and the array
GeneratedReply(p, reply) ==
  /\ proc[p].gt = "generate"
  /\ \/ reply \in {"restated", "echoed"} /\ proc[p].at = "next_text"
     \/ reply = "pair" /\ SiteKind(proc[p].at) = "choices"
  /\ Allowed(TRUE)
  /\ Completes(p, "ok",
               IF reply = "restated" THEN proc[p].choice[1].consequence \o <<" ","T","h","e"," ","p","a","t","h"," ","b","e","n","d","s"," ","n","o","r","t","h",".">>
               ELSE IF reply = "echoed"
               THEN proc[p].prompt \o <<" ">> \o proc[p].choice[1].consequence \o <<" ","T","h","e"," ","p","a","t","h"," ","b","e","n","d","s"," ","n","o","r","t","h",".">>
               ELSE proc[p].prompt \o <<"\n">> \o PairOfChoices,
               TRUE)

NextReplies ==
  \/ \E p \in CallerIds : generateStoryStart(p)
  \/ \E p \in CallerIds, index \in 1..MaxChoices : generateNextSegment(p, index)
  \/ \E p \in CallerIds, ok \in BOOLEAN : ModuleImported(p, ok)
  \/ \E p \in CallerIds, ok \in BOOLEAN : TokenizerLoaded(p, ok)
  \/ \E p \in CallerIds, ok \in BOOLEAN : PipelineCreated(p, ok)
  \/ \E p \in CallerIds, outcome \in {"ok", "bad", "throw"} : SelfTested(p, outcome)
  \/ \E p \in CallerIds : InitializeReturned(p)
  \/ \E p \in CallerIds, outcome \in AllOutcomes : Generated(p, outcome)
  \/ \E p \in CallerIds, reply \in Replies : GeneratedReply(p, reply)
  \/ \E p \in CallerIds : TimerElapsed(p)
  \/ \E p \in CallerIds, rnd \in Randoms : GenerateTextSettled(p, rnd)

InitReplies == InitWith({1}, [turns |-> RepliesTurns, surprises |-> RepliesSurprises])

\* one caller, whose model may give the further answers too
SpecReplies == InitReplies /\ [][NextReplies]_vars

(***************************************************************************)
(* The choice extractors on their own: one call on a text the model may    *)
(* have answered to a choices prompt.                                      *)
(***************************************************************************)
\* the pieces the texts are made of: an array that opens with one object, a
\* further object, one whose value holds a colon (the key quoting of the
\* first approach then makes JSON.parse throw), the end of the array, a
\* numbered item, a bulleted item and a plain line
ChoicesFragments ==
  { <<"[","{","\"","t","e","x","t","\"",":","\"","R","u","n","\"",",","\"","c","o","n","s","e","q","u","e","n","c","e","\"",":","\"","Y","o","u"," ","f","l","e","e","\"","}">>,
    <<",","{","\"","t","e","x","t","\"",":","\"","H","i","d","e","\"",",","\"","c","o","n","s","e","q","u","e","n","c","e","\"",":","\"","Y","o","u"," ","h","i","d","e","\"","}">>,
    <<",","{","\"","t","e","x","t","\"",":","\"","S","e","e",":"," ","i","t","\"",",","\"","c","o","n","s","e","q","u","e","n","c","e","\"",":","\"","Y","o","u"," ","s","e","e","\"","}">>,
    <<"]">>,
    <<"1","."," ","G","o"," ","n","o","r","t","h","\n">>,
    <<"-"," ","W","a","i","t"," ","h","e","r","e","\n">>,
    <<" ","O","p","e","n"," ","t","h","e"," ","d","o","o","r","\n">> }

\* the most pieces of a text
MaxFragments == 3

ChoicesTexts ==
  { FlattenRange(pieces, 1, Len(pieces)) : pieces \in UNION { [1..n -> ChoicesFragments] : n \in 0..MaxFragments } }

\* the extractor of the implementation is called on the text and returns:
\* parseChoicesFromText(choicesText), or the part of generateChoices that
\* follows its completion
ParseChoices(rnd) ==
  /\ parser.returned = <<>>
  /\ parser' = [parser EXCEPT !.returned =
                  <<IF impl = 1 THEN parseChoicesFromText(parser.choicesText, rnd.draws)
                    ELSE ChoicesFromLines(parser.choicesText, rnd.transition)>>]
  /\ UNCHANGED <<impl, generator, isInitializing, transformers, store, proc, loads, callers, limits, turns, app, classifier, surprises>>

NextParse == \E rnd \in Randoms : ParseChoices(rnd)

InitParse ==
  /\ InitProgram({}, [turns |-> 0, surprises |-> 0])
  /\ parser \in { [choicesText |-> text, returned |-> <<>>] : text \in ChoicesTexts }
  /\ classifier = [currentBase |-> <<>>, text |-> <<>>, returned |-> <<>>]

SpecParse == InitParse /\ [][NextParse]_vars

(***************************************************************************)
(* The classification of a text as an environment on its own: "Determine   *)
(* the next environment" of the first implementation, getEnvironment of    *)
(* the second.                                                             *)
(***************************************************************************)
\* the words the texts are made of: the keywords of the two implementations,
\* one of them capitalized, and a word that is no keyword
ClassifiedWords ==
  { <<"c","a","v","e">>, <<"c","a","v","e","r","n">>, <<"u","n","d","e","r","g","r","o","u","n","d">>, <<"d","a","r","k">>, <<"C","a","v","e">>,
    <<"r","u","i","n">>, <<"a","n","c","i","e","n","t">>, <<"s","t","r","u","c","t","u","r","e">>, <<"t","e","m","p","l","e">>, <<"R","u","i","n","s">>, <<"p","a","t","h">> }

\* the most words of a text
MaxWords == 2

ClassifiedTexts ==
  { Join(words, <<" ">>) : words \in UNION { [1..n -> ClassifiedWords] : n \in 0..MaxWords } }

\* the text is classified: the environment of the next segment
Classify ==
  /\ classifier.returned = <<>>
  /\ classifier' = [classifier EXCEPT !.returned =
                      <<IF impl = 1 THEN NextEnvironment1(classifier.currentBase, classifier.text)
                        ELSE getEnvironment(classifier.text)>>]
  /\ UNCHANGED <<impl, generator, isInitializing, transformers, store, proc, loads, callers, limits, turns, app, parser, surprises>>

NextClassify == Classify

InitClassify ==
  /\ InitProgram({}, [turns |-> 0, surprises |-> 0])
  /\ parser = [choicesText |-> <<>>, returned |-> <<>>]
  /\ classifier \in { [currentBase |-> base, text |-> text, returned |-> <<>>] :
                        base \in {ForestText, CaveText, RuinsText}, text \in ClassifiedTexts }

SpecClassify == InitClassify /\ [][NextClassify]_vars

(***************************************************************************)
(* Properties.  last is the record a caller keeps of its latest completed  *)
(* hook call.                                                              *)
(***************************************************************************)
\* C1: whatever the outcomes of its model calls (a completion, a thrown
\* error, a result of unrecognized shape, a failed model load), a completed
\* generateInitialStory or generateNextStorySegment call has resolved, to a
\* story segment, and never rejected.
C1_NeverRejects ==
  \A p \in CallerIds :
    proc[p].last.op # "none" =>
      /\ proc[p].last.settled = "resolved"
      /\ Len(proc[p].last.segment) = 1
      /\ DOMAIN proc[p].last.segment[1] = {"text", "environment", "choices", "metadata"}

\* a call has completed although one of its model calls failed after the
\* model failed to load
C1_Witness ==
  \E p \in CallerIds :
    /\ proc[p].last.op = "generateNextSegment"
    /\ proc[p].last.failedSites # {}
    /\ loads.outcome = "failed"

\* C2: every segment appended to the history has exactly two choices,
\* whatever text the model returned for the choices prompt.
C2_ExactlyTwoChoices ==
  \A i \in 1..Len(store.storyHistory) : Len(store.storyHistory[i].choices) = 2

\* C3: in a serialized sequence of turns, a generateNextStorySegment call
\* that found segmentsSincePromptRefresh at the threshold or above leaves it
\* at 0, and any other call leaves it at its entry value plus 1, whatever the
\* outcomes of the model calls.
C3_CounterResetsOrIncrements ==
  \A p \in CallerIds :
    proc[p].last.op = "generateNextSegment" =>
      proc[p].last.exitCount =
        IF proc[p].last.entryCount >= RefreshPromptAfterSegments THEN 0 ELSE proc[p].last.entryCount + 1

\* C4: after any sequence of calls the length of storySummary is at most
\* the cap, the largest one the code applies to a summary.
C4_SummaryWithinCap == Len(store.storySummary) <= MaxSummaryLength

\* C5: at most one caller is carrying out a model load at any time.
C5_SingleLoad == Cardinality({p \in CallerIds : proc[p].gt \in LoadPositions}) <= 1

\* a caller has arrived while another caller's load was in progress, and
\* that load is still going on
C5_Witness ==
  \E p, q \in CallerIds :
    /\ p # q
    /\ proc[p].gt \in LoadPositions
    /\ proc[q].op # "idle"
    /\ proc[q].waitedOn = loads.started

\* C6: no caller that arrived during a load that succeeded has failed with
\* the not-initialized error.
C6_WaitersAreServed == loads.starved \cap loads.succeeded = {}

\* C7: once a load whose self-test returned a result without a
\* generated-text field, or threw, is over, the cached generator is cleared,
\* the initializing flag is cleared and the load counts as failed.
C7_BadSelfTestFailsLoad ==
  (/\ loads.selfTest \in {"bad", "throw"}
   /\ \A p \in CallerIds : proc[p].gt \notin LoadPositions)
  => ~generator /\ ~isInitializing /\ loads.outcome = "failed"

\* C8: with every model call so far answered by its typical completion, the
\* third generateNextStorySegment call since the counter was 0 takes the
\* refresh branch and leaves storySummary equal to the completion of the
\* fresh-summary prompt.
C8_ThirdCallRefreshes ==
  \A p \in CallerIds :
    (/\ surprises = 0
     /\ proc[p].last.op = "generateNextSegment"
     /\ proc[p].last.entryCount = RefreshPromptAfterSegments - 1)
    => /\ proc[p].last.shouldRefresh
       /\ proc[p].last.freshSummary = <<proc[p].last.exitSummary>>

C10_InitialFallback ==
  \A p \in CallerIds :
    LET call == proc[p].last
        segment == call.segment[1]
    IN (/\ call.op = "generateStoryStart"
        /\ \A i \in 1..Len(call.calledSites) : call.calledSites[i] \in call.failedSites)
       => /\ segment.environment.baseEnvironment = <<"f","o","r","e","s","t">>
          /\ segment.metadata.location = <<"f","o","r","e","s","t">>
          /\ Len(segment.choices) = 2
          /\ segment.choices[1].text = (IF impl = 1 THEN <<"E","x","p","l","o","r","e"," ","f","u","r","t","h","e","r">> ELSE <<"E","x","p","l","o","r","e"," ","t","h","e"," ","f","o","r","e","s","t">>)
          /\ segment.choices[1].consequence
               = (IF impl = 1 THEN <<"Y","o","u"," ","d","e","c","i","d","e"," ","t","o"," ","v","e","n","t","u","r","e"," ","d","e","e","p","e","r"," ","i","n","t","o"," ","t","h","i","s"," ","m","y","s","t","e","r","i","o","u","s"," ","f","o","r","e","s","t",".">>
                  ELSE <<"Y","o","u"," ","v","e","n","t","u","r","e"," ","d","e","e","p","e","r"," ","i","n","t","o"," ","t","h","e"," ","m","y","s","t","e","r","i","o","u","s"," ","f","o","r","e","s","t",".">>)
          /\ segment.choices[2].text = (IF impl = 1 THEN <<"S","t","a","y"," ","c","a","u","t","i","o","u","s">> ELSE <<"L","o","o","k"," ","f","o","r"," ","a"," ","p","a","t","h">>)

\* the first implementation has returned after both its opening call and
\* the summary call of its catch block failed
C10_Witness ==
  \E p \in CallerIds :
    /\ proc[p].last.op = "generateStoryStart"
    /\ proc[p].last.failedSites = {"init_text", "fallback_summary"}

\* C11: once the preload has failed on every attempt and has used up its
\* retries, the loading overlay is shown, in its error form with the Try
\* Again button.
C11_TerminalFailureVisible == app.at = "failed" => OverlayShown /\ RetryShown

\* C12: the text generateText returns, the output of the sanitizer
\* (cleanGeneratedText, cleanText), is at most 300 characters long.
C12_SanitizedWithinCap ==
  \A p \in CallerIds :
    (proc[p].gt = "settled" /\ proc[p].result.kind = "ok") => Len(proc[p].result.text) <= MaxTextLength

\* C13: the text generateText returns, the output of the sanitizer, is not
\* empty and ends with '.', '!' or '?'.
C13_SanitizedTerminated ==
  \A p \in CallerIds :
    (proc[p].gt = "settled" /\ proc[p].result.kind = "ok")
    => /\ proc[p].result.text # <<>>
       /\ IsPunct(proc[p].result.text[Len(proc[p].result.text)])

\* C14: a segment of the history never changes: in every step each entry the
\* history had before the step is the same after it.
C14_SegmentsImmutable ==
  [][\A i \in 1..Len(store.storyHistory) :
       i <= Len(store.storyHistory') => store.storyHistory'[i] = store.storyHistory[i]]_vars

\* C15: only a step of a generateInitialStory or generateNextStorySegment
\* call, from its invocation to its return, changes storySummary,
\* segmentsSincePromptRefresh or storyHistory.
C15_OnlyNarrativeWrites ==
  [][(\/ store.storySummary' # store.storySummary
      \/ store.segmentsSincePromptRefresh' # store.segmentsSincePromptRefresh
      \/ store.storyHistory' # store.storyHistory)
     => \E p \in CallerIds : proc[p]' # proc[p]]_vars

\* C16: a generateNextStorySegment call whose continuation was generated and
\* whose returned text holds no cave keyword and no ruins keyword returns a
\* segment with the baseEnvironment of the current segment.
C16_EnvironmentCarried ==
  \A p \in CallerIds :
    LET call == proc[p].last
        NoKeyword(text) ==
          \A word \in {<<"c","a","v","e">>, <<"c","a","v","e","r","n">>, <<"u","n","d","e","r","g","r","o","u","n","d">>, <<"d","a","r","k">>, <<"r","u","i","n">>, <<"a","n","c","i","e","n","t">>, <<"s","t","r","u","c","t","u","r","e">>, <<"t","e","m","p","l","e">>} :
            ~Includes(ToLower(text), word)
    IN (/\ call.op = "generateNextSegment"
        /\ call.failedSites = {}
        /\ NoKeyword(call.segment[1].text))
       => call.segment[1].environment.baseEnvironment = call.currentStory[1].environment.baseEnvironment

\* C17: the history is append-only and currentSegment is its last entry: a
\* step leaves the history as long as it was or makes it one longer, every
\* entry stays at its index (the same segment, whatever became of its props),
\* an entry that is added is the new currentSegment, and at all times
\* currentSegment, when it is not null, is the last entry of the history.
C17_HistoryAppendOnly ==
  /\ [](store.currentSegment # <<>> =>
          /\ store.storyHistory # <<>>
          /\ store.currentSegment[1] = store.storyHistory[Len(store.storyHistory)])
  /\ [][/\ Len(store.storyHistory') \in {Len(store.storyHistory), Len(store.storyHistory) + 1}
        /\ \A i \in 1..Len(store.storyHistory) :
             [store.storyHistory'[i] EXCEPT !.environment.props = <<>>]
               = [store.storyHistory[i] EXCEPT !.environment.props = <<>>]
        /\ Len(store.storyHistory') = Len(store.storyHistory) + 1
             => store.currentSegment' = <<store.storyHistory'[Len(store.storyHistory')]>>]_vars

\* the history holds two segments, the first of which the player's click
\* has written to
C17_Witness ==
  /\ Len(store.storyHistory) = 2
  /\ store.storyHistory[1].environment.props # <<>>
  /\ store.currentSegment = <<store.storyHistory[2]>>

\* C18: a completed generateNextStorySegment call has written storySummary
\* at most once; on a refresh turn the write is the one of refreshStoryPrompt,
\* which leaves the fresh-summary result as the summary, and the fold-in
\* update is not written; on a turn without refresh the only write is the
\* fold-in update.
C18_OneSummaryWrite ==
  \A p \in CallerIds :
    LET call == proc[p].last
    IN call.op = "generateNextSegment" =>
         /\ Len(call.summaryWrites) <= 1
         /\ call.shouldRefresh =>
              /\ \A i \in 1..Len(call.summaryWrites) : call.summaryWrites[i] = "refreshStoryPrompt"
              /\ call.summaryWrites # <<>> => call.freshSummary = <<call.exitSummary>>
              /\ call.failedSites = {} => call.summaryWrites # <<>>
         /\ ~call.shouldRefresh =>
              \A i \in 1..Len(call.summaryWrites) : call.summaryWrites[i] = "generateNextStorySegment"

\* C19: parseChoicesFromText returns what the first of its approaches that
\* succeeds on the trimmed text yields, the JSON array before the scraped
\* keys before the list; it returns the default pair ('Explore further',
\* 'Stay cautious') exactly when the three approaches fail; and it returns
\* choices, at least two, whatever was thrown inside an approach.
C19_FirstStrategyWins ==
  (impl = 1 /\ parser.returned # <<>>) =>
    LET jsonString == Trim(parser.choicesText)
        returned == parser.returned[1]
        JsonArray(draws) == ParseJsonArrayChoices(jsonString, draws)
        KeyValue == ParseKeyValueChoices(jsonString)
        List == ParseListChoices(jsonString)
        ArrayFails == \A rnd \in Randoms : ~JsonArray(rnd.draws).ok
    IN /\ ~ArrayFails => \E rnd \in Randoms : JsonArray(rnd.draws).ok /\ returned = JsonArray(rnd.draws).choices
       /\ (ArrayFails /\ KeyValue.ok) => returned = KeyValue.choices
       /\ (ArrayFails /\ ~KeyValue.ok /\ List.ok) => returned = List.choices
       /\ (returned[1].text = <<"E","x","p","l","o","r","e"," ","f","u","r","t","h","e","r">> /\ returned[2].text = <<"S","t","a","y"," ","c","a","u","t","i","o","u","s">>)
            <=> (ArrayFails /\ ~KeyValue.ok /\ ~List.ok)
       /\ (ArrayFails /\ ~KeyValue.ok /\ ~List.ok) => returned = DefaultParsedChoices
       /\ Len(returned) >= 2

\* the first approach found an array in the text and JSON.parse threw on
\* it, and what was returned are the choices scraped from the keys
C19_Witness ==
  /\ impl = 1
  /\ parser.returned # <<>>
  /\ LET jsonString == Trim(parser.choicesText)
         match == JsonArrayMatch(jsonString)
     IN /\ match # <<0, 0>>
        /\ ~JsonParse(QuoteValuesFrom(QuoteKeys(QuoteSingles(SubSeq(jsonString, match[1], match[2]))), 1)).ok
  /\ ParseKeyValueChoices(Trim(parser.choicesText)).ok
  /\ parser.returned[1] = ParseKeyValueChoices(Trim(parser.choicesText)).choices

\* C20: in the segment a generateNextStorySegment call returns from its try
\* block, the lighting and the atmosphere are the preset of the segment's
\* own baseEnvironment overridden by the fields of the choice's
\* lightingChange and atmosphereChange.
C20_PresetOfNewEnvironment ==
  \A p \in CallerIds :
    LET call == proc[p].last
        segment == call.segment[1]
        choice == call.choice[1]
        preset == environments(segment.environment.baseEnvironment)
    IN (/\ call.op = "generateNextSegment"
        /\ "next_text" \notin call.failedSites
        /\ impl = 1 => "next_choices" \notin call.failedSites)
       => /\ segment.environment.lighting = Spread(preset.lighting, choice.environmentImpact.lightingChange)
          /\ segment.environment.atmosphere = Spread(preset.atmosphere, choice.environmentImpact.atmosphereChange)

\* C21: the classification has a fixed priority and never fails: a text
\* that holds a cave keyword of the implementation is classified cave,
\* whether or not it holds a ruins keyword; a text that holds a ruins keyword
\* and no cave keyword is classified ruins; and every text is classified as
\* one of the environments.
C21_CaveBeforeRuins ==
  classifier.returned # <<>> =>
    LET lowerText == ToLower(classifier.text)
        Holds(words) == \E word \in words : Includes(lowerText, word)
        cave == Holds(IF impl = 1 THEN {<<"c","a","v","e">>, <<"c","a","v","e","r","n">>, <<"u","n","d","e","r","g","r","o","u","n","d">>} ELSE {<<"c","a","v","e">>, <<"u","n","d","e","r","g","r","o","u","n","d">>, <<"d","a","r","k">>})
        ruins == Holds(IF impl = 1 THEN {<<"r","u","i","n">>, <<"a","n","c","i","e","n","t">>, <<"s","t","r","u","c","t","u","r","e">>} ELSE {<<"r","u","i","n">>, <<"a","n","c","i","e","n","t">>, <<"t","e","m","p","l","e">>})
    IN /\ cave => classifier.returned[1] = <<"c","a","v","e">>
       /\ (ruins /\ ~cave) => classifier.returned[1] = <<"r","u","i","n","s">>
       /\ classifier.returned[1] \in {<<"f","o","r","e","s","t">>, <<"c","a","v","e">>, <<"r","u","i","n","s">>}

\* a text with a ruins keyword before a cave keyword has been classified by
\* the second implementation
C21_Witness ==
  /\ impl = 2
  /\ classifier.text = <<"R","u","i","n","s"," ","d","a","r","k">>
  /\ classifier.returned = <<<<"c","a","v","e">>>>

\* C22: the text of the segment a generateNextStorySegment call returns
\* begins with the consequence of the choice, and the consequence is that
\* prefix once only: what follows it, white space apart, does not begin with
\* the consequence again.
C22_ConsequencePrefixedOnce ==
  \A p \in CallerIds :
    LET call == proc[p].last
        text == call.segment[1].text
        consequence == call.choice[1].consequence
    IN call.op = "generateNextSegment" =>
         /\ StartsWith(text, consequence)
         /\ ~StartsWith(Trim(SubSeq(text, Len(consequence) + 1, Len(text))), consequence)

\* C23: the startup terminates: preloadONNX calls initializeONNX() at most
\* 1 + 3 times; once the App is mounted, isInitializing is eventually false
\* unless the App is unmounted; and no attempt is started after the App was
\* unmounted.
C23_StartupTerminates ==
  /\ [](app.attempts <= 1 + 3)
  /\ [](app.at # "unmounted" => <>(~app.isInitializing \/ app.cleanedUp))
  /\ [][app.cleanedUp => app.attempts' = app.attempts]_vars

\* the startup has given up after its fourth attempt
C23_Witness == app.at = "failed" /\ app.attempts = 4 /\ ~app.isInitializing /\ ~app.cleanedUp

C25_ManualRefreshTaken ==
  [][app.isPromptRefreshing /\ proc[1].op = "idle" /\ proc[1]'.op = "generateNextSegment"
       => proc[1]'.shouldRefresh]_vars

\* C26: in the implementation whose choices prompt asks for a JSON array,
\* when the completion the model gives to the choices prompt of a turn is the
\* echoed prompt followed by a well-formed JSON array of two
\* {text, consequence} objects, the segment generateNextStorySegment returns
\* has the two texts of the array as the texts of its choices, in the order
\* of the array.
C26_ArrayReachesExtractor ==
  \A p \in CallerIds :
    LET last == proc[p].last
        n == Len(PairOfChoices)
    IN (/\ impl = 1
        /\ last.op = "generateNextSegment"
        /\ last.settled = "resolved"
        /\ Len(last.reply) > n
        /\ SubSeq(last.reply, Len(last.reply) - n + 1, Len(last.reply)) = PairOfChoices)
       => /\ Len(last.segment[1].choices) = 2
          /\ last.segment[1].choices[1].text = <<"R","u","n">>
          /\ last.segment[1].choices[2].text = <<"H","i","d","e">>

\* C27: no story completion is issued against a model that has not passed
\* its self-test: while a caller awaits generator(prompt, ...), the load
\* that created the generator has finished successfully.
C27_CompletionsAfterSelfTest ==
  \A p \in CallerIds : proc[p].gt = "generate" => loads.outcome = "ok"

\* C28: when a generateNextStorySegment call ends on the fallback path (the
\* segment it returns is the fallback segment), the call has not written to
\* storySummary a summary made from the continuation it generated and then
\* discarded.
C28_SummaryOfReturnedText ==
  \A p \in CallerIds :
    LET last == proc[p].last
    IN (/\ last.op = "generateNextSegment"
        /\ last.settled = "resolved"
        /\ last.segment[1] = NextFallbackSegment(impl, last.currentStory[1], last.choice[1]))
       => \A i \in 1..Len(last.summaryWrites) : last.summaryWrites[i] # "generateNextStorySegment"

\* C29: whenever no generation is in flight (every generateText call has
\* returned or thrown), downloadProgress is not strictly between 0 and 100.
C29_ProgressSettled ==
  (\A p \in CallerIds : proc[p].gt = "none") => store.downloadProgress \notin 1..99

\* C30: every segment produced by generateInitialStory or
\* generateNextStorySegment, on the normal and on the fallback path, has
\* metadata.location equal to environment.baseEnvironment, and its
\* baseEnvironment is one of forest, cave and ruins.
C30_LocationIsEnvironment ==
  /\ \A i \in 1..Len(store.storyHistory) :
       /\ store.storyHistory[i].metadata.location = store.storyHistory[i].environment.baseEnvironment
       /\ store.storyHistory[i].environment.baseEnvironment \in {<<"f","o","r","e","s","t">>, <<"c","a","v","e">>, <<"r","u","i","n","s">>}
  /\ \A p \in CallerIds : \A i \in 1..Len(proc[p].last.segment) :
       /\ proc[p].last.segment[i].metadata.location = proc[p].last.segment[i].environment.baseEnvironment
       /\ proc[p].last.segment[i].environment.baseEnvironment \in {<<"f","o","r","e","s","t">>, <<"c","a","v","e">>, <<"r","u","i","n","s">>}

\* a turn that ended on the fallback path in a cave
C30_Witness ==
  \E p \in CallerIds :
    /\ proc[p].last.op = "generateNextSegment"
    /\ proc[p].last.settled = "resolved"
    /\ proc[p].last.segment[1] = NextFallbackSegment(impl, proc[p].last.currentStory[1], proc[p].last.choice[1])
    /\ proc[p].last.segment[1].environment.baseEnvironment = <<"c","a","v","e">>
    /\ Len(store.storyHistory) = 3

====
